---- MODULE Spec2Model ----
(***************************************************************************)
(* A model of ralph's task orchestration: the dependency-graph evaluator   *)
(* (ralph/dag.py), the locked JSON store (ralph/locks.py) and the          *)
(* execute loops of ralph/run.py.                                          *)
(***************************************************************************)
EXTENDS Integers, Sequences, FiniteSets, TLC

VARIABLES
    dag_tasks,      \* dag.py: the task list handed to the evaluator
    dag_pc,         \* which evaluator function is applied next
    dag_ready,      \* result of get_ready_tasks
    dag_complete,   \* result of all_tasks_complete
    dag_exceeded,   \* result of any_task_exceeded_max_attempts
    dag_rcomplete,  \* result of Runner._all_tasks_complete on the same list
    dag_rexceeded,  \* result of Runner._any_task_exceeded_max_attempts
    js_doc,         \* locks.py: the document d handed to write_json
    js_pc,          \* position in "write_json(path, d); read_json(path)"
    js_file,        \* the text at path
    js_result,      \* what read_json returned
    st_dir,         \* the directory: the inode each path names
    st_ino,         \* the text of each inode
    st_tmp,         \* whether a caller's mkstemp file is still in the directory
    st_lock,        \* FileLock(path + ".lock"): its holder
    st_pc,          \* each caller's position in its store operation
    st_call,        \* each caller's operation and path
    st_data,        \* each caller's in-memory document
    st_fh,          \* the inode a reader has open
    st_err,         \* the exception each caller's operation raised
    as_files,       \* run.py: which of the three documents exist
    as_tasks,       \* tasks.json: data["tasks"]
    as_state,       \* state.json: the run-state log
    as_obstacles,   \* obstacles.json: data["obstacles"]
    as_futures,     \* futures: the task ids, in insertion order
    as_worker,      \* each task's worker: none, running, or how it ended
    as_pc,          \* the loop's position
    as_todo,        \* Step A: the rest of list(futures.items())
    as_cur,         \* Step A: the future being reconciled
    as_ready,       \* Step C: the rest of ready_tasks
    as_summary,     \* the exit reasons _run_summarise was called with
    as_err,         \* the exception that left the loop
    as_held,        \* the path whose lock another process holds
    as_initial,     \* data["tasks"] as the loop found it
    as_dispatches,  \* how many workers the loop has submitted for each task
    sq_exists,      \* run.py, sequential loop: whether tasks.json exists
    sq_tasks,       \* tasks.json: data["tasks"]
    sq_prompts,     \* len(prompts)
    sq_max,         \* max_iterations
    sq_pc,          \* the loop's position
    sq_summary,     \* the exit reasons _run_summarise was called with
    sq_err,         \* the exception that left run_execute_loop
    pl_tasks,       \* run.py, Step C and the executor: data["tasks"]
    pl_pc,          \* the loop's position in the cycle
    pl_ready,       \* the ids of ready_tasks still to be looked at
    pl_futures,     \* the ids in the futures map
    pl_worker       \* per task: "none", "queued", "running" or "done"

dag_vars == <<dag_tasks, dag_pc, dag_ready, dag_complete, dag_exceeded,
              dag_rcomplete, dag_rexceeded>>
js_vars == <<js_doc, js_pc, js_file, js_result>>
st_vars == <<st_dir, st_ino, st_tmp, st_lock, st_pc, st_call, st_data, st_fh,
             st_err>>

as_vars == <<as_files, as_tasks, as_state, as_obstacles, as_futures, as_worker,
             as_pc, as_todo, as_cur, as_ready, as_summary, as_err, as_held,
             as_initial, as_dispatches>>

sq_vars == <<sq_exists, sq_tasks, sq_prompts, sq_max, sq_pc, sq_summary, sq_err>>

pl_vars == <<pl_tasks, pl_pc, pl_ready, pl_futures, pl_worker>>

vars == <<dag_vars, js_vars, st_vars, as_vars, sq_vars, pl_vars>>

\* what the steps of one component leave alone
DagFrame == UNCHANGED <<js_vars, st_vars, as_vars, sq_vars, pl_vars>>
JsFrame == UNCHANGED <<dag_vars, st_vars, as_vars, sq_vars, pl_vars>>
StFrame == UNCHANGED <<dag_vars, js_vars, as_vars, sq_vars, pl_vars>>
AsFrame == UNCHANGED <<dag_vars, js_vars, st_vars, sq_vars, pl_vars>>
SqFrame == UNCHANGED <<dag_vars, js_vars, st_vars, as_vars, pl_vars>>
PlFrame == UNCHANGED <<dag_vars, js_vars, st_vars, as_vars, sq_vars>>

None == "None"

InSeq(x, seq) == \E k \in 1..Len(seq) : seq[k] = x

(***************************************************************************)
(* Bounds of the evaluator's inputs.                                       *)
(***************************************************************************)
MaxTasks == 2

\* An id that no task of a list carries.
AbsentId == 0

Statuses == {"pending", "in_progress", "completed"}

\* (attempts, max_attempts): below, at and above the limit.
AttemptPairs == {<<0, 2>>, <<1, 1>>, <<2, 1>>}

DepSets == {{}, {1}, {2}, {1, 2}, {AbsentId}, {1, AbsentId}}

\* A task as tasks.json holds it, before its id is set.
FullTasks ==
    { [status |-> s, blocked |-> b, attempts |-> ap[1],
       max_attempts |-> ap[2], dependencies |-> d] :
        s \in Statuses, b \in BOOLEAN, ap \in AttemptPairs, d \in DepSets }

\* A task that leaves out every optional key.
BareTasks == { [status |-> s] : s \in Statuses }

WithId(t, i) == [k \in DOMAIN t \cup {"id"} |-> IF k = "id" THEN i ELSE t[k]]

(***************************************************************************)
(* ralph/dag.py                                                            *)
(***************************************************************************)
\* dict.get(key, default)
Get(t, key, default) == IF key \in DOMAIN t THEN t[key] ELSE default

DefaultMaxAttempts == 3

\* A variant that takes the pending tasks for the completed ones.
completed_ids_pending(tasks) ==
    { tasks[i].id : i \in { j \in 1..Len(tasks) : tasks[j].status = "pending" } }

\* A variant that takes every task that was started for a completed one.
completed_ids_started(tasks) ==
    { tasks[i].id : i \in { j \in 1..Len(tasks) : tasks[j].status # "pending" } }

completed_ids(tasks) ==
    { tasks[i].id : i \in { j \in 1..Len(tasks) : tasks[j].status = "completed" } }

\* A variant that offers a task once only: never after an attempt.
is_ready_unattempted(tasks, task) ==
    /\ task.status = "pending"
    /\ ~Get(task, "blocked", FALSE)
    /\ Get(task, "attempts", 0) = 0
    /\ \A dep \in Get(task, "dependencies", {}) : dep \in completed_ids(tasks)

\* A variant that lets through every task that is not running, the completed
\* ones included.
is_ready_not_running(tasks, task) ==
    /\ task.status # "in_progress"
    /\ ~Get(task, "blocked", FALSE)
    /\ ~(Get(task, "attempts", 0) >= Get(task, "max_attempts", DefaultMaxAttempts))
    /\ \A dep \in Get(task, "dependencies", {}) : dep \in completed_ids(tasks)

is_ready(tasks, task) ==
    /\ task.status = "pending"
    /\ ~Get(task, "blocked", FALSE)
    /\ ~(Get(task, "attempts", 0) >= Get(task, "max_attempts", DefaultMaxAttempts))
    /\ \A dep \in Get(task, "dependencies", {}) : dep \in completed_ids(tasks)

\* A variant that only refuses dependencies known to be unfinished.
get_ready_tasks_unfinished_only(tasks) ==
    SelectSeq(tasks, LAMBDA t :
        /\ t.status = "pending"
        /\ ~Get(t, "blocked", FALSE)
        /\ ~(Get(t, "attempts", 0) >= Get(t, "max_attempts", DefaultMaxAttempts))
        /\ \A dep \in Get(t, "dependencies", {}) :
              \A i \in 1..Len(tasks) :
                 tasks[i].id = dep => tasks[i].status = "completed")

get_ready_tasks(tasks) == SelectSeq(tasks, LAMBDA t : is_ready(tasks, t))

\* A variant that refuses the empty list.
all_tasks_complete_nonempty(tasks) ==
    /\ Len(tasks) > 0
    /\ \A i \in 1..Len(tasks) : tasks[i].status = "completed"

all_tasks_complete(tasks) == \A i \in 1..Len(tasks) : tasks[i].status = "completed"

is_exceeded(task) ==
    /\ task.status # "completed"
    /\ Get(task, "attempts", 0) >= Get(task, "max_attempts", DefaultMaxAttempts)

\* A variant that does not skip completed tasks.
any_task_exceeded_any_status(tasks) ==
    LET hits == { i \in 1..Len(tasks) :
                    Get(tasks[i], "attempts", 0)
                        >= Get(tasks[i], "max_attempts", DefaultMaxAttempts) }
    IN  IF hits = {} THEN <<FALSE, None>>
        ELSE <<TRUE, tasks[CHOOSE i \in hits : \A j \in hits : i <= j]>>

any_task_exceeded_max_attempts(tasks) ==
    LET hits == { i \in 1..Len(tasks) : is_exceeded(tasks[i]) }
    IN  IF hits = {} THEN <<FALSE, None>>
        ELSE <<TRUE, tasks[CHOOSE i \in hits : \A j \in hits : i <= j]>>

(***************************************************************************)
(* The evaluator applied to every task list within the bounds.             *)
(***************************************************************************)
DagInit ==
    /\ \E n \in 0..MaxTasks :
         \E l \in [1..n -> FullTasks \cup BareTasks] :
            \* the task at position i carries id i
            dag_tasks = [i \in 1..n |-> WithId(l[i], i)]
    /\ dag_pc = "ready"
    /\ dag_ready = <<>>
    /\ dag_complete = FALSE
    /\ dag_exceeded = <<FALSE, None>>
    /\ dag_rcomplete = FALSE
    /\ dag_rexceeded = <<FALSE, None>>

CallGetReadyTasks ==
    /\ dag_pc = "ready"
    /\ dag_ready' = get_ready_tasks(dag_tasks)
    /\ dag_pc' = "complete"
    /\ UNCHANGED <<dag_tasks, dag_complete, dag_exceeded, dag_rcomplete, dag_rexceeded>>
    /\ DagFrame

CallAllTasksComplete ==
    /\ dag_pc = "complete"
    /\ dag_complete' = all_tasks_complete(dag_tasks)
    /\ dag_pc' = "exceeded"
    /\ UNCHANGED <<dag_tasks, dag_ready, dag_exceeded, dag_rcomplete, dag_rexceeded>>
    /\ DagFrame

CallAnyTaskExceeded ==
    /\ dag_pc = "exceeded"
    /\ dag_exceeded' = any_task_exceeded_max_attempts(dag_tasks)
    /\ dag_pc' = "done"
    /\ UNCHANGED <<dag_tasks, dag_ready, dag_complete, dag_rcomplete, dag_rexceeded>>
    /\ DagFrame

\* the evaluator is not in use
DagIdle ==
    /\ dag_tasks = <<>>
    /\ dag_pc = "off"
    /\ dag_ready = <<>>
    /\ dag_complete = FALSE
    /\ dag_exceeded = <<FALSE, None>>
    /\ dag_rcomplete = FALSE
    /\ dag_rexceeded = <<FALSE, None>>

(***************************************************************************)
(* JSON documents and their text (json.dump(data, fh, indent=2) and        *)
(* json.load(fh) in ralph/locks.py).  A document is a tagged value; its    *)
(* text is a sequence of tokens.                                           *)
(***************************************************************************)
JNull == [t |-> "null"]
JBool(b) == [t |-> "bool", v |-> b]
JInt(n) == [t |-> "int", v |-> n]
JStr(x) == [t |-> "str", v |-> x]
JList(items) == [t |-> "list", v |-> items]
\* members: a sequence of <<key, value>> pairs with distinct string keys
JDict(members) == [t |-> "dict", v |-> members]

JSONDecodeError == [t |-> "JSONDecodeError"]

Punct(c) == [k |-> "p", v |-> c]
NumTok(n) == [k |-> "num", v |-> n]
StrTok(x) == [k |-> "str", v |-> x]
\* a line break followed by the indentation of the given depth
Indent(depth) == [k |-> "ws", v |-> depth]

RECURSIVE Encode(_, _)
RECURSIVE EncodeItems(_, _, _)
RECURSIVE EncodeMembers(_, _, _)

\* the items of a non-empty list, each on its own line
EncodeItems(items, depth, first) ==
    IF items = <<>> THEN <<>>
    ELSE (IF first THEN <<>> ELSE <<Punct(",")>>)
         \o <<Indent(depth)>> \o Encode(Head(items), depth)
         \o EncodeItems(Tail(items), depth, FALSE)

EncodeMembers(members, depth, first) ==
    IF members = <<>> THEN <<>>
    ELSE (IF first THEN <<>> ELSE <<Punct(",")>>)
         \o <<Indent(depth), StrTok(Head(members)[1]), Punct(":")>>
         \o Encode(Head(members)[2], depth)
         \o EncodeMembers(Tail(members), depth, FALSE)

Encode(d, depth) ==
    CASE d.t = "null" -> <<Punct("null")>>
      [] d.t = "bool" -> <<Punct(IF d.v THEN "true" ELSE "false")>>
      [] d.t = "int"  -> <<NumTok(d.v)>>
      [] d.t = "str"  -> <<StrTok(d.v)>>
      [] d.t = "list" ->
            IF d.v = <<>> THEN <<Punct("["), Punct("]")>>
            ELSE <<Punct("[")>> \o EncodeItems(d.v, depth + 1, TRUE)
                 \o <<Indent(depth), Punct("]")>>
      [] d.t = "dict" ->
            IF d.v = <<>> THEN <<Punct("{"), Punct("}")>>
            ELSE <<Punct("{")>> \o EncodeMembers(d.v, depth + 1, TRUE)
                 \o <<Indent(depth), Punct("}")>>

\* A serializer that writes a bool as the int it equals in Python.
json_dump_bool_as_int(d) ==
    LET RECURSIVE Flat(_)
        Flat(x) ==
            CASE x.t = "bool" -> JInt(IF x.v THEN 1 ELSE 0)
              [] x.t = "list" -> JList([i \in 1..Len(x.v) |-> Flat(x.v[i])])
              [] x.t = "dict" ->
                    JDict([i \in 1..Len(x.v) |-> <<x.v[i][1], Flat(x.v[i][2])>>])
              [] OTHER -> x
    IN  Encode(Flat(d), 0)

json_dump(d) == Encode(d, 0)

IsPunct(tok, c) == tok.k = "p" /\ tok.v = c

ParseFail == [ok |-> FALSE]
Parsed(val, rest) == [ok |-> TRUE, val |-> val, rest |-> rest]

RECURSIVE ParseValue(_)
RECURSIVE ParseItems(_, _)
RECURSIVE ParseMembers(_, _)

\* after "[" or ",": a value, then "," or "]"
ParseItems(s, acc) ==
    LET r == ParseValue(s) IN
    IF ~r.ok \/ r.rest = <<>> THEN ParseFail
    ELSE IF IsPunct(Head(r.rest), "]")
         THEN Parsed(JList(Append(acc, r.val)), Tail(r.rest))
    ELSE IF IsPunct(Head(r.rest), ",")
         THEN ParseItems(Tail(r.rest), Append(acc, r.val))
    ELSE ParseFail

\* after "{" or ",": a string key, ":", a value, then "," or "}"
ParseMembers(s, acc) ==
    IF Len(s) < 2 \/ Head(s).k # "str" \/ ~IsPunct(s[2], ":") THEN ParseFail
    ELSE LET r == ParseValue(Tail(Tail(s))) IN
         IF ~r.ok \/ r.rest = <<>> THEN ParseFail
         ELSE IF IsPunct(Head(r.rest), "}")
              THEN Parsed(JDict(Append(acc, <<Head(s).v, r.val>>)), Tail(r.rest))
         ELSE IF IsPunct(Head(r.rest), ",")
              THEN ParseMembers(Tail(r.rest), Append(acc, <<Head(s).v, r.val>>))
         ELSE ParseFail

ParseValue(s) ==
    IF s = <<>> THEN ParseFail
    ELSE LET h == Head(s) IN
         CASE h.k = "num" -> Parsed(JInt(h.v), Tail(s))
           [] h.k = "str" -> Parsed(JStr(h.v), Tail(s))
           [] IsPunct(h, "null") -> Parsed(JNull, Tail(s))
           [] IsPunct(h, "true") -> Parsed(JBool(TRUE), Tail(s))
           [] IsPunct(h, "false") -> Parsed(JBool(FALSE), Tail(s))
           [] IsPunct(h, "[") ->
                 IF Len(s) >= 2 /\ IsPunct(s[2], "]")
                 THEN Parsed(JList(<<>>), Tail(Tail(s)))
                 ELSE ParseItems(Tail(s), <<>>)
           [] IsPunct(h, "{") ->
                 IF Len(s) >= 2 /\ IsPunct(s[2], "}")
                 THEN Parsed(JDict(<<>>), Tail(Tail(s)))
                 ELSE ParseMembers(Tail(s), <<>>)
           [] OTHER -> ParseFail

\* json.load: white space is skipped; anything but one whole value is an error
json_load(text) ==
    LET r == ParseValue(SelectSeq(text, LAMBDA tok : tok.k # "ws")) IN
    IF r.ok /\ r.rest = <<>> THEN r.val ELSE JSONDecodeError

(***************************************************************************)
(* The documents of at most MaxNodes nodes.                                *)
(***************************************************************************)
MaxNodes == 4

Scalars == {JNull, JBool(TRUE), JBool(FALSE), JInt(0), JInt(1), JStr("a")}

\* the key of the i-th member of a dict
KeyAt(i) == IF i = 1 THEN "a" ELSE IF i = 2 THEN "b" ELSE IF i = 3 THEN "c" ELSE "d"

RECURSIVE DocsOfSize(_)
RECURSIVE Forests(_)

\* the sequences of documents with n nodes in all
Forests(n) ==
    IF n = 0 THEN {<<>>}
    ELSE UNION { { <<d>> \o f : d \in DocsOfSize(j), f \in Forests(n - j) } : j \in 1..n }

DocsOfSize(n) ==
    IF n = 0 THEN {}
    ELSE (IF n = 1 THEN Scalars ELSE {})
         \cup { JList(f) : f \in Forests(n - 1) }
         \cup { JDict([i \in 1..Len(f) |-> <<KeyAt(i), f[i]>>]) : f \in Forests(n - 1) }

Documents == UNION { DocsOfSize(n) : n \in 1..MaxNodes }

NoFile == <<[k |-> "ENOENT", v |-> 0]>>

(***************************************************************************)
(* write_json(path, d) followed by read_json(path), nothing in between.    *)
(***************************************************************************)
JsInit ==
    /\ js_doc \in Documents
    /\ js_pc = "write"
    /\ js_file = NoFile
    /\ js_result = JNull

\* write_json: the text goes to a temporary file that replaces path
JsWriteJson ==
    /\ js_pc = "write"
    /\ js_file' = json_dump(js_doc)
    /\ js_pc' = "read"
    /\ UNCHANGED <<js_doc, js_result>>
    /\ JsFrame

JsReadJson ==
    /\ js_pc = "read"
    /\ js_result' = json_load(js_file)
    /\ js_pc' = "done"
    /\ UNCHANGED <<js_doc, js_file>>
    /\ JsFrame

\* the round trip is not in use
JsIdle ==
    /\ js_doc = JNull
    /\ js_pc = "off"
    /\ js_file = NoFile
    /\ js_result = JNull

(***************************************************************************)
(* ralph/locks.py: callers of locked_json_rw, write_json and read_json on  *)
(* shared paths.  A file is an inode named by a directory entry;           *)
(* os.replace renames the temporary file's entry over path.                *)
(***************************************************************************)
NCallers == 3

Callers == 1..NCallers

Paths == {"tasks.json", "state.json"}

\* inode 0 is the file tasks.json starts with; inode c is caller c's mkstemp file
InitialIno == 0
NoIno == -1
NoHolder == 0

CounterDoc(n) == JDict(<< <<"counter", JInt(n)>> >>)

\* the document write_json callers write
WrittenDoc == CounterDoc(5)

NoCall == [op |-> "none", path |-> "none"]
NoError == "none"

StInit ==
    /\ st_dir = [p \in Paths |-> IF p = "tasks.json" THEN InitialIno ELSE NoIno]
    /\ st_ino = [i \in {InitialIno} \cup Callers |->
                    IF i = InitialIno THEN json_dump(CounterDoc(0)) ELSE <<>>]
    /\ st_tmp = [c \in Callers |-> FALSE]
    /\ st_lock = [p \in Paths |-> NoHolder]
    /\ st_pc = [c \in Callers |-> "idle"]
    /\ st_call = [c \in Callers |-> NoCall]
    /\ st_data = [c \in Callers |-> JNull]
    /\ st_fh = [c \in Callers |-> NoIno]
    /\ st_err = [c \in Callers |-> NoError]

\* the store is not in use
StIdle ==
    /\ st_dir = [p \in Paths |-> NoIno]
    /\ st_ino = <<>>
    /\ st_tmp = <<>>
    /\ st_lock = [p \in Paths |-> NoHolder]
    /\ st_pc = <<>>
    /\ st_call = <<>>
    /\ st_data = <<>>
    /\ st_fh = <<>>
    /\ st_err = <<>>

\* One lock for all documents.
LockAvailableForAll(path) == \A p \in Paths : st_lock[p] = NoHolder

\* A lock that never refuses.
LockAlwaysAvailable(path) == TRUE

\* FileLock.acquire succeeds when nobody holds the lock file
LockAvailable(path) == st_lock[path] = NoHolder

\* data["counter"] += 1
Bump(d) == JDict(<< <<"counter", JInt(d.v[1][2].v + 1)>> >>)

\* lock on path taken by c, which goes on to pc
Acquired(c, op, path, pc, data) ==
    /\ st_lock' = [st_lock EXCEPT ![path] = c]
    /\ st_pc' = [st_pc EXCEPT ![c] = pc]
    /\ st_call' = [st_call EXCEPT ![c] = [op |-> op, path |-> path]]
    /\ st_data' = [st_data EXCEPT ![c] = data]

\* An exception that ends the operation with its lock still taken.
RaiseKeepsLock(c, err) ==
    /\ st_pc' = [st_pc EXCEPT ![c] = "failed"]
    /\ st_err' = [st_err EXCEPT ![c] = err]
    /\ UNCHANGED st_lock

\* the operation of c ends by raising err; its lock, if any, is released
Raise(c, err) ==
    /\ st_pc' = [st_pc EXCEPT ![c] = "failed"]
    /\ st_err' = [st_err EXCEPT ![c] = err]
    /\ st_lock' = [p \in Paths |-> IF st_lock[p] = c THEN NoHolder ELSE st_lock[p]]

\* locks.py 38-41: "with lock:" of locked_json_rw
RwAcquire(c, path) ==
    /\ st_pc[c] = "idle"
    /\ LockAvailable(path)
    /\ Acquired(c, "locked_json_rw", path, "rw_read", JNull)
    /\ UNCHANGED <<st_dir, st_ino, st_tmp, st_fh, st_err>>
    /\ StFrame

\* A write_json that goes ahead without the lock.
WriteAcquireUnlocked(c, path) ==
    /\ st_pc[c] = "idle"
    /\ st_pc' = [st_pc EXCEPT ![c] = "mkstemp"]
    /\ st_call' = [st_call EXCEPT ![c] = [op |-> "write_json", path |-> path]]
    /\ st_data' = [st_data EXCEPT ![c] = WrittenDoc]
    /\ UNCHANGED <<st_dir, st_ino, st_tmp, st_lock, st_fh, st_err>>
    /\ StFrame

\* locks.py 85-88: "with lock:" of write_json
WriteAcquire(c, path) ==
    /\ st_pc[c] = "idle"
    /\ LockAvailable(path)
    /\ Acquired(c, "write_json", path, "mkstemp", WrittenDoc)
    /\ UNCHANGED <<st_dir, st_ino, st_tmp, st_fh, st_err>>
    /\ StFrame

\* locks.py 39/86: the lock stays held for _LOCK_TIMEOUT seconds: filelock.Timeout
AcquireTimeout(c, op, path) ==
    /\ st_pc[c] = "idle"
    /\ ~LockAvailable(path)
    /\ st_call' = [st_call EXCEPT ![c] = [op |-> op, path |-> path]]
    /\ Raise(c, "Timeout")
    /\ UNCHANGED <<st_dir, st_ino, st_tmp, st_data, st_fh>>
    /\ StFrame

\* A read that returns the file as it was at the start.
RwLoadStale(path) == json_load(st_ino[InitialIno])

\* locks.py 44-45: open(path), json.load(fh), inside the lock
RwLoad(path) == json_load(st_ino[st_dir[path]])

RwRead(c) ==
    /\ st_pc[c] = "rw_read"
    /\ st_dir[st_call[c].path] # NoIno
    /\ RwLoad(st_call[c].path) # JSONDecodeError
    /\ st_data' = [st_data EXCEPT ![c] = RwLoad(st_call[c].path)]
    /\ st_pc' = [st_pc EXCEPT ![c] = "rw_body"]
    /\ UNCHANGED <<st_dir, st_ino, st_tmp, st_lock, st_call, st_fh, st_err>>
    /\ StFrame

\* locks.py 44-45: no file at path, or text that is no JSON
RwReadFails(c) ==
    /\ st_pc[c] = "rw_read"
    /\ IF st_dir[st_call[c].path] = NoIno
       THEN Raise(c, "FileNotFoundError")
       ELSE /\ RwLoad(st_call[c].path) = JSONDecodeError
            /\ Raise(c, "JSONDecodeError")
    /\ UNCHANGED <<st_dir, st_ino, st_tmp, st_call, st_data, st_fh>>
    /\ StFrame

\* locks.py 47: the caller's block runs to its end
RwBody(c) ==
    /\ st_pc[c] = "rw_body"
    /\ st_data' = [st_data EXCEPT ![c] = Bump(st_data[c])]
    /\ st_pc' = [st_pc EXCEPT ![c] = "mkstemp"]
    /\ UNCHANGED <<st_dir, st_ino, st_tmp, st_lock, st_call, st_fh, st_err>>
    /\ StFrame

\* A block exception after which the write-back still runs.
BlockRaisedWritesBack == "mkstemp"

\* locks.py 47: an exception thrown in at the yield leaves "with lock:"
BlockRaised == "failed"

\* locks.py 47: the caller's block changes data, then raises
RwBodyRaises(c) ==
    /\ st_pc[c] = "rw_body"
    /\ st_data' = [st_data EXCEPT ![c] = Bump(st_data[c])]
    /\ st_err' = [st_err EXCEPT ![c] = "ValueError"]
    /\ st_pc' = [st_pc EXCEPT ![c] = BlockRaised]
    /\ st_lock' = [p \in Paths |->
                     IF st_lock[p] = c /\ BlockRaised = "failed"
                     THEN NoHolder ELSE st_lock[p]]
    /\ UNCHANGED <<st_dir, st_ino, st_tmp, st_call, st_fh>>
    /\ StFrame

\* locks.py 52/90: tempfile.mkstemp(dir=dir_name, suffix=".tmp")
Mkstemp(c) ==
    /\ st_pc[c] = "mkstemp"
    /\ st_tmp' = [st_tmp EXCEPT ![c] = TRUE]
    /\ st_ino' = [st_ino EXCEPT ![c] = <<>>]
    /\ st_pc' = [st_pc EXCEPT ![c] = "dump"]
    /\ UNCHANGED <<st_dir, st_lock, st_call, st_data, st_fh, st_err>>
    /\ StFrame

\* locks.py 52/90: mkstemp raises before the try block is entered
MkstempFails(c) ==
    /\ st_pc[c] = "mkstemp"
    /\ Raise(c, "PermissionError")
    /\ UNCHANGED <<st_dir, st_ino, st_tmp, st_call, st_data, st_fh>>
    /\ StFrame

\* A write-back that writes the text over the file at path itself.
DumpTargetInPlace(c) ==
    IF st_dir[st_call[c].path] = NoIno THEN c ELSE st_dir[st_call[c].path]

\* locks.py 54/92: os.fdopen(fd, "w"): the text goes to the mkstemp file
DumpTarget(c) == c

\* the first part of a text
FirstPart(text) == SubSeq(text, 1, Len(text) \div 2)

\* locks.py 55/93: json.dump has written a first part of the text
DumpPart(c) ==
    /\ st_pc[c] = "dump"
    /\ st_ino' = [st_ino EXCEPT ![DumpTarget(c)] = FirstPart(json_dump(st_data[c]))]
    /\ st_pc' = [st_pc EXCEPT ![c] = "dump_rest"]
    /\ UNCHANGED <<st_dir, st_tmp, st_lock, st_call, st_data, st_fh, st_err>>
    /\ StFrame

\* locks.py 54-55/92-93: the rest of the text is written and the file closed
DumpRest(c) ==
    /\ st_pc[c] = "dump_rest"
    /\ st_ino' = [st_ino EXCEPT ![DumpTarget(c)] = json_dump(st_data[c])]
    /\ st_pc' = [st_pc EXCEPT ![c] = "replace"]
    /\ UNCHANGED <<st_dir, st_tmp, st_lock, st_call, st_data, st_fh, st_err>>
    /\ StFrame

\* locks.py 55/93: serialization or the write raises; the except clause is entered
DumpFails(c) ==
    /\ st_pc[c] \in {"dump", "dump_rest"}
    /\ st_err' = [st_err EXCEPT ![c] = "TypeError"]
    /\ st_pc' = [st_pc EXCEPT ![c] = "cleanup"]
    /\ UNCHANGED <<st_dir, st_ino, st_tmp, st_lock, st_call, st_data, st_fh>>
    /\ StFrame

\* An inode that no directory entry names and no reader has open is gone.
Reclaim(ino, dir, tmp, fh) ==
    [i \in DOMAIN ino |->
        IF \/ \E p \in Paths : dir[p] = i
           \/ i \in Callers /\ tmp[i]
           \/ \E r \in Callers : fh[r] = i
        THEN ino[i] ELSE <<>>]

\* locks.py 56/94: os.replace(tmp_path, path)
Replace(c) ==
    /\ st_pc[c] = "replace"
    /\ st_dir' = [st_dir EXCEPT ![st_call[c].path] = c]
    /\ st_tmp' = [st_tmp EXCEPT ![c] = FALSE]
    /\ st_ino' = Reclaim(st_ino, st_dir', st_tmp', st_fh)
    /\ st_pc' = [st_pc EXCEPT ![c] = "release"]
    /\ UNCHANGED <<st_lock, st_call, st_data, st_fh, st_err>>
    /\ StFrame

\* locks.py 56/94: os.replace raises; the except clause is entered
ReplaceFails(c) ==
    /\ st_pc[c] = "replace"
    /\ st_err' = [st_err EXCEPT ![c] = "OSError"]
    /\ st_pc' = [st_pc EXCEPT ![c] = "cleanup"]
    /\ UNCHANGED <<st_dir, st_ino, st_tmp, st_lock, st_call, st_data, st_fh>>
    /\ StFrame

\* An except clause that re-raises without removing the temporary file.
CleanupKeepsTmp(c) ==
    /\ st_pc[c] = "cleanup"
    /\ Raise(c, st_err[c])
    /\ UNCHANGED <<st_dir, st_ino, st_tmp, st_call, st_data, st_fh>>
    /\ StFrame

\* locks.py 57-64/95-100: os.unlink(tmp_path), then raise
Cleanup(c) ==
    /\ st_pc[c] = "cleanup"
    /\ st_tmp' = [st_tmp EXCEPT ![c] = FALSE]
    /\ st_ino' = [st_ino EXCEPT ![c] = <<>>]
    /\ Raise(c, st_err[c])
    /\ UNCHANGED <<st_dir, st_call, st_data, st_fh>>
    /\ StFrame

\* locks.py 41/88: the end of "with lock:"
Release(c) ==
    /\ st_pc[c] = "release"
    /\ st_lock' = [st_lock EXCEPT ![st_call[c].path] = NoHolder]
    /\ st_pc' = [st_pc EXCEPT ![c] = IF st_err[c] = NoError THEN "done" ELSE "failed"]
    /\ UNCHANGED <<st_dir, st_ino, st_tmp, st_call, st_data, st_fh, st_err>>
    /\ StFrame

\* locks.py 74: open(path), no lock taken
ReadOpen(c, path) ==
    /\ st_pc[c] = "idle"
    /\ st_dir[path] # NoIno
    /\ st_call' = [st_call EXCEPT ![c] = [op |-> "read_json", path |-> path]]
    /\ st_fh' = [st_fh EXCEPT ![c] = st_dir[path]]
    /\ st_pc' = [st_pc EXCEPT ![c] = "load"]
    /\ UNCHANGED <<st_dir, st_ino, st_tmp, st_lock, st_data, st_err>>
    /\ StFrame

\* locks.py 74: open(path) finds no file
ReadOpenFails(c, path) ==
    /\ st_pc[c] = "idle"
    /\ st_dir[path] = NoIno
    /\ st_call' = [st_call EXCEPT ![c] = [op |-> "read_json", path |-> path]]
    /\ Raise(c, "FileNotFoundError")
    /\ UNCHANGED <<st_dir, st_ino, st_tmp, st_data, st_fh>>
    /\ StFrame

\* locks.py 75: json.load(fh) on the open file
ReadLoad(c) ==
    /\ st_pc[c] = "load"
    /\ LET d == json_load(st_ino[st_fh[c]]) IN
       IF d = JSONDecodeError
       THEN /\ Raise(c, "JSONDecodeError")
            /\ UNCHANGED st_data
       ELSE /\ st_data' = [st_data EXCEPT ![c] = d]
            /\ st_pc' = [st_pc EXCEPT ![c] = "done"]
            /\ UNCHANGED <<st_lock, st_err>>
    /\ st_fh' = [st_fh EXCEPT ![c] = NoIno]
    /\ st_ino' = Reclaim(st_ino, st_dir, st_tmp, st_fh')
    /\ UNCHANGED <<st_dir, st_tmp, st_call>>
    /\ StFrame

LockingOps == {"locked_json_rw", "write_json"}

StNext ==
    \E c \in Callers :
        \/ \E path \in Paths :
              \/ RwAcquire(c, path)
              \/ WriteAcquire(c, path)
              \/ \E op \in LockingOps : AcquireTimeout(c, op, path)
              \/ ReadOpen(c, path)
              \/ ReadOpenFails(c, path)
        \/ RwRead(c)
        \/ RwReadFails(c)
        \/ RwBody(c)
        \/ RwBodyRaises(c)
        \/ Mkstemp(c)
        \/ MkstempFails(c)
        \/ DumpPart(c)
        \/ DumpRest(c)
        \/ DumpFails(c)
        \/ Replace(c)
        \/ ReplaceFails(c)
        \/ Cleanup(c)
        \/ Release(c)
        \/ ReadLoad(c)

(***************************************************************************)
(* ralph/run.py: Runner.run_execute_loop_async.  The loop is one thread;   *)
(* each worker ends with a return code or an exception at a time of its    *)
(* own; another process may hold the lock of one of the documents.         *)
(***************************************************************************)
\* the largest max_attempts of a task
MaxAttemptsCap == 2

TasksPath == "tasks.json"
StatePath == "state.json"
ObstaclesPath == "obstacles.json"
AsPaths == {TasksPath, StatePath, ObstaclesPath}

NoPath == "none"

\* the dependencies of the tasks of a list, by position
DepGraphs ==
    { << {} >>,
      << {}, {} >>,
      << {}, {1} >>,
      << {2}, {} >>,
      << {2}, {1} >>,
      << {}, {1, AbsentId} >> }

\* (status, attempts, blocked) a task of limit m may start with
InitialShapes(m) ==
    { <<"pending", 0, FALSE>>, <<"pending", 0, TRUE>>, <<"pending", m, FALSE>>,
      <<"completed", 1, FALSE>>, <<"in_progress", 1, FALSE>> }

AsTask(i, shape, m, deps) ==
    [id |-> i, status |-> shape[1], attempts |-> shape[2], blocked |-> shape[3],
     max_attempts |-> m, dependencies |-> deps]

StateEntry(task_id) == [task_id |-> task_id, status |-> "completed"]

\* An id that repeats the one of the last obstacle.
next_id_of_last(obs_list) == Len(obs_list)

\* run.py 223: next_id = f"O{len(obs_list) + 1}"
next_id(obs_list) == Len(obs_list) + 1

\* id stands for "O<id>"
Obstacle(id, task_id) == [id |-> id, task_id |-> task_id, resolved |-> FALSE]

AsInit ==
    /\ \E g \in DepGraphs :
         \E ms \in [1..Len(g) -> 1..MaxAttemptsCap] :
            \E sh \in [1..Len(g) -> UNION { InitialShapes(m) : m \in 1..MaxAttemptsCap }] :
               /\ \A i \in 1..Len(g) : sh[i] \in InitialShapes(ms[i])
               /\ as_tasks = [i \in 1..Len(g) |-> AsTask(i, sh[i], ms[i], g[i])]
    /\ \/ /\ as_files = {TasksPath}
          /\ as_state = <<>>
          /\ as_obstacles = <<>>
       \/ /\ as_files = AsPaths
          /\ as_state = <<StateEntry(AbsentId)>>
          /\ as_obstacles = <<Obstacle(1, AbsentId)>>
    /\ as_futures = <<>>
    /\ as_worker = [i \in 1..Len(as_tasks) |-> "none"]
    /\ as_pc = "start_state"
    /\ as_todo = <<>>
    /\ as_cur = <<>>
    /\ as_ready = <<>>
    /\ as_summary = <<>>
    /\ as_err = NoError
    /\ as_held = NoPath
    /\ as_initial = as_tasks
    /\ as_dispatches = [i \in 1..Len(as_tasks) |-> 0]

\* the loop is not in use
AsIdle ==
    /\ as_files = {}
    /\ as_tasks = <<>>
    /\ as_state = <<>>
    /\ as_obstacles = <<>>
    /\ as_futures = <<>>
    /\ as_worker = <<>>
    /\ as_pc = "off"
    /\ as_todo = <<>>
    /\ as_cur = <<>>
    /\ as_ready = <<>>
    /\ as_summary = <<>>
    /\ as_err = NoError
    /\ as_held = NoPath
    /\ as_initial = <<>>
    /\ as_dispatches = <<>>

\* An update that counts every attempt twice.
SetFirstCountsTwice(tasks, task_id, status, more) ==
    LET hits == { i \in 1..Len(tasks) : tasks[i].id = task_id } IN
    IF hits = {} THEN tasks
    ELSE LET i == CHOOSE k \in hits : \A j \in hits : k <= j IN
         [tasks EXCEPT ![i] = [@ EXCEPT !.status = status,
                                        !.attempts = @ + more + more]]

\* An update that sets the status and forgets the attempts.
SetFirstStatusOnly(tasks, task_id, status, more) ==
    LET hits == { i \in 1..Len(tasks) : tasks[i].id = task_id } IN
    IF hits = {} THEN tasks
    ELSE LET i == CHOOSE k \in hits : \A j \in hits : k <= j IN
         [tasks EXCEPT ![i] = [@ EXCEPT !.status = status]]

\* "for t in data['tasks']: if t['id'] == task_id: ...; break"
SetFirst(tasks, task_id, status, more) ==
    LET hits == { i \in 1..Len(tasks) : tasks[i].id = task_id } IN
    IF hits = {} THEN tasks
    ELSE LET i == CHOOSE k \in hits : \A j \in hits : k <= j IN
         [tasks EXCEPT ![i] = [@ EXCEPT !.status = status,
                                        !.attempts = @ + more]]

\* A removal that leaves the sequence as it was.
RemoveNothing(seq, x) == seq

Remove(seq, x) == SelectSeq(seq, LAMBDA y : y # x)

\* An exception that is caught where it is raised and the loop goes on.
LoopSwallows(err) ==
    /\ as_pc' = "check"
    /\ as_err' = err

\* run.py 187-288: an exception leaves "while True" through "finally"
LoopRaises(err) ==
    /\ as_pc' = "raised"
    /\ as_err' = err

\* A start-up that writes the empty document whether or not the file exists.
ensure_document_always(exists, content, empty) == empty

\* run.py 179-182: "if not os.path.exists(path): write_json(path, <empty>)":
\* the content of the file after the statement
ensure_document(exists, content, empty) == IF exists THEN content ELSE empty

\* run.py 179-180: write_json(state_path, []) when state.json is absent
StartState ==
    /\ as_pc = "start_state"
    /\ StatePath \notin as_files => as_held # StatePath
    /\ as_files' = as_files \cup {StatePath}
    /\ as_state' = ensure_document(StatePath \in as_files, as_state, <<>>)
    /\ as_pc' = "start_obstacles"
    /\ UNCHANGED <<as_tasks, as_obstacles, as_futures, as_worker, as_todo,
                   as_cur, as_ready, as_summary, as_err, as_held>>
    /\ UNCHANGED <<as_initial, as_dispatches>>
    /\ AsFrame

\* run.py 181-182: write_json(obstacles_path, {"obstacles": []}) when absent
StartObstacles ==
    /\ as_pc = "start_obstacles"
    /\ ObstaclesPath \notin as_files => as_held # ObstaclesPath
    /\ as_files' = as_files \cup {ObstaclesPath}
    /\ as_obstacles' = ensure_document(ObstaclesPath \in as_files, as_obstacles, <<>>)
    /\ as_pc' = "reconcile"
    /\ UNCHANGED <<as_tasks, as_state, as_futures, as_worker, as_todo,
                   as_cur, as_ready, as_summary, as_err, as_held>>
    /\ UNCHANGED <<as_initial, as_dispatches>>
    /\ AsFrame

\* A check that takes every future for a finished one.
future_done_always(task_id) == TRUE

\* run.py 191: future.done()
future_done(task_id) == as_worker[task_id] # "running"

\* the document of the store operation the loop is at, if it is at one
PathAt ==
    CASE as_pc = "start_state" /\ StatePath \notin as_files -> StatePath
      [] as_pc = "start_obstacles" /\ ObstaclesPath \notin as_files -> ObstaclesPath
      [] as_pc = "reconcile" /\ as_todo # <<>> /\ future_done(Head(as_todo)) ->
            IF as_worker[Head(as_todo)] = "rc0" THEN TasksPath ELSE ObstaclesPath
      [] as_pc = "reconcile2" ->
            IF as_cur[2] = "rc0" THEN StatePath ELSE TasksPath
      [] as_pc = "dispatch" /\ as_ready # <<>> /\ ~InSeq(Head(as_ready), as_futures) ->
            TasksPath
      [] OTHER -> NoPath

\* locks.py 39-41: the lock of the document stays held: filelock.Timeout.
\* run.py 193: in Step A the future has left the map before the store is used.
StoreTimeout ==
    /\ PathAt # NoPath
    /\ as_held = PathAt
    /\ LoopRaises("Timeout")
    /\ as_futures' = IF as_pc = "reconcile" THEN Remove(as_futures, Head(as_todo))
                     ELSE as_futures
    /\ UNCHANGED <<as_files, as_tasks, as_state, as_obstacles, as_worker, as_todo,
                   as_cur, as_ready, as_summary, as_held>>
    /\ UNCHANGED <<as_initial, as_dispatches>>
    /\ AsFrame

\* run.py 190-192: a future that is not done is passed over
ReconcileSkip ==
    /\ as_pc = "reconcile"
    /\ as_todo # <<>>
    /\ ~future_done(Head(as_todo))
    /\ as_todo' = Tail(as_todo)
    /\ UNCHANGED <<as_files, as_tasks, as_state, as_obstacles, as_futures, as_worker,
                   as_pc, as_cur, as_ready, as_summary, as_err, as_held>>
    /\ UNCHANGED <<as_initial, as_dispatches>>
    /\ AsFrame

\* A first step that records no obstacle for a worker that raised.
ReconcileFirstDropsException ==
    /\ as_pc = "reconcile"
    /\ as_todo # <<>>
    /\ future_done(Head(as_todo))
    /\ as_held # PathAt
    /\ LET task_id == Head(as_todo)
           outcome == as_worker[task_id] IN
       /\ as_futures' = Remove(as_futures, task_id)
       /\ as_cur' = <<task_id, outcome>>
       /\ IF outcome = "rc0"
          THEN /\ as_tasks' = SetFirst(as_tasks, task_id, "completed", 0)
               /\ UNCHANGED as_obstacles
          ELSE /\ as_obstacles' =
                     IF outcome = "exc" THEN as_obstacles
                     ELSE Append(as_obstacles, Obstacle(next_id(as_obstacles), task_id))
               /\ UNCHANGED as_tasks
    /\ as_pc' = "reconcile2"
    /\ UNCHANGED <<as_files, as_state, as_worker, as_todo, as_ready, as_summary,
                   as_err, as_held>>
    /\ UNCHANGED <<as_initial, as_dispatches>>
    /\ AsFrame

\* run.py 193-209, 221-234: the future leaves the map; on return code 0 the
\* task is set completed, otherwise (an exception counts as 1) an obstacle is
\* appended
ReconcileFirst ==
    /\ as_pc = "reconcile"
    /\ as_todo # <<>>
    /\ future_done(Head(as_todo))
    /\ as_held # PathAt
    /\ LET task_id == Head(as_todo)
           outcome == as_worker[task_id] IN
       /\ as_futures' = Remove(as_futures, task_id)
       /\ as_cur' = <<task_id, outcome>>
       /\ IF outcome = "rc0"
          THEN /\ as_tasks' = SetFirst(as_tasks, task_id, "completed", 0)
               /\ UNCHANGED as_obstacles
          ELSE /\ as_obstacles' =
                     Append(as_obstacles, Obstacle(next_id(as_obstacles), task_id))
               /\ UNCHANGED as_tasks
    /\ as_pc' = "reconcile2"
    /\ UNCHANGED <<as_files, as_state, as_worker, as_todo, as_ready, as_summary,
                   as_err, as_held>>
    /\ UNCHANGED <<as_initial, as_dispatches>>
    /\ AsFrame

\* A second step that puts the new run-state entry in front of the log.
ReconcileSecondPrepends ==
    /\ as_pc = "reconcile2"
    /\ as_held # PathAt
    /\ IF as_cur[2] = "rc0"
       THEN /\ as_state' = <<StateEntry(as_cur[1])>> \o as_state
            /\ UNCHANGED as_tasks
       ELSE /\ as_tasks' = SetFirst(as_tasks, as_cur[1], "pending", 0)
            /\ UNCHANGED as_state
    /\ as_todo' = Tail(as_todo)
    /\ as_cur' = <<>>
    /\ as_pc' = "reconcile"
    /\ UNCHANGED <<as_files, as_obstacles, as_futures, as_worker, as_ready,
                   as_summary, as_err, as_held>>
    /\ UNCHANGED <<as_initial, as_dispatches>>
    /\ AsFrame

\* A second step that logs a run-state entry for failed attempts too.
ReconcileSecondLogsAll ==
    /\ as_pc = "reconcile2"
    /\ as_held # PathAt
    /\ as_state' = Append(as_state, StateEntry(as_cur[1]))
    /\ as_tasks' = IF as_cur[2] = "rc0" THEN as_tasks
                   ELSE SetFirst(as_tasks, as_cur[1], "pending", 0)
    /\ as_todo' = Tail(as_todo)
    /\ as_cur' = <<>>
    /\ as_pc' = "reconcile"
    /\ UNCHANGED <<as_files, as_obstacles, as_futures, as_worker, as_ready,
                   as_summary, as_err, as_held>>
    /\ UNCHANGED <<as_initial, as_dispatches>>
    /\ AsFrame

\* run.py 210-219, 235-239: on return code 0 a run-state entry is appended,
\* otherwise the task is set back to pending
ReconcileSecond ==
    /\ as_pc = "reconcile2"
    /\ as_held # PathAt
    /\ IF as_cur[2] = "rc0"
       THEN /\ as_state' = Append(as_state, StateEntry(as_cur[1]))
            /\ UNCHANGED as_tasks
       ELSE /\ as_tasks' = SetFirst(as_tasks, as_cur[1], "pending", 0)
            /\ UNCHANGED as_state
    /\ as_todo' = Tail(as_todo)
    /\ as_cur' = <<>>
    /\ as_pc' = "reconcile"
    /\ UNCHANGED <<as_files, as_obstacles, as_futures, as_worker, as_ready,
                   as_summary, as_err, as_held>>
    /\ UNCHANGED <<as_initial, as_dispatches>>
    /\ AsFrame

\* An end of Step A that goes on to Step C without Step B.
ReconcileEndSkipsCheck ==
    /\ as_pc = "reconcile"
    /\ as_todo = <<>>
    /\ as_pc' = "dispatch"
    /\ UNCHANGED <<as_files, as_tasks, as_state, as_obstacles, as_futures, as_worker,
                   as_todo, as_cur, as_ready, as_summary, as_err, as_held>>
    /\ UNCHANGED <<as_initial, as_dispatches>>
    /\ AsFrame

\* run.py 190: the end of Step A
ReconcileEnd ==
    /\ as_pc = "reconcile"
    /\ as_todo = <<>>
    /\ as_pc' = "check"
    /\ UNCHANGED <<as_files, as_tasks, as_state, as_obstacles, as_futures, as_worker,
                   as_todo, as_cur, as_ready, as_summary, as_err, as_held>>
    /\ UNCHANGED <<as_initial, as_dispatches>>
    /\ AsFrame

AllCompleted == <<"All tasks completed successfully.">>
TaskExhausted(task) == <<"reached max_attempts", task.id, task.max_attempts>>

\* A Step B that names the last exhausted task of the list, not the first.
CheckExitNamesLast ==
    /\ as_pc = "check"
    /\ IF all_tasks_complete(as_tasks)
       THEN /\ as_summary' = Append(as_summary, AllCompleted)
            /\ as_pc' = "returned"
            /\ UNCHANGED as_ready
       ELSE IF any_task_exceeded_max_attempts(as_tasks)[1]
       THEN /\ as_summary' =
                  Append(as_summary,
                         TaskExhausted(
                            as_tasks[CHOOSE i \in 1..Len(as_tasks) :
                                        /\ is_exceeded(as_tasks[i])
                                        /\ \A j \in 1..Len(as_tasks) :
                                              is_exceeded(as_tasks[j]) => j <= i]))
            /\ as_pc' = "returned"
            /\ UNCHANGED as_ready
       ELSE /\ as_ready' = [k \in 1..Len(get_ready_tasks(as_tasks)) |->
                               get_ready_tasks(as_tasks)[k].id]
            /\ as_pc' = "dispatch"
            /\ UNCHANGED as_summary
    /\ UNCHANGED <<as_files, as_tasks, as_state, as_obstacles, as_futures, as_worker,
                   as_todo, as_cur, as_err, as_held>>
    /\ UNCHANGED <<as_initial, as_dispatches>>
    /\ AsFrame

\* run.py 247-264: Step B on the tasks read without the lock, then ready_tasks
CheckExit ==
    /\ as_pc = "check"
    /\ IF all_tasks_complete(as_tasks)
       THEN /\ as_summary' = Append(as_summary, AllCompleted)
            /\ as_pc' = "returned"
            /\ UNCHANGED as_ready
       ELSE IF any_task_exceeded_max_attempts(as_tasks)[1]
       THEN /\ as_summary' =
                  Append(as_summary,
                         TaskExhausted(any_task_exceeded_max_attempts(as_tasks)[2]))
            /\ as_pc' = "returned"
            /\ UNCHANGED as_ready
       ELSE /\ as_ready' = [k \in 1..Len(get_ready_tasks(as_tasks)) |->
                               get_ready_tasks(as_tasks)[k].id]
            /\ as_pc' = "dispatch"
            /\ UNCHANGED as_summary
    /\ UNCHANGED <<as_files, as_tasks, as_state, as_obstacles, as_futures, as_worker,
                   as_todo, as_cur, as_err, as_held>>
    /\ UNCHANGED <<as_initial, as_dispatches>>
    /\ AsFrame

\* run.py 265-283: a ready task not in the map is set in_progress with one
\* more attempt, and its worker is submitted
Dispatch ==
    /\ as_pc = "dispatch"
    /\ as_ready # <<>>
    /\ as_held # PathAt
    /\ LET task_id == Head(as_ready) IN
       IF InSeq(task_id, as_futures)
       THEN UNCHANGED <<as_tasks, as_futures, as_worker, as_dispatches>>
       ELSE /\ as_tasks' = SetFirst(as_tasks, task_id, "in_progress", 1)
            /\ as_futures' = Append(as_futures, task_id)
            /\ as_worker' = [as_worker EXCEPT ![task_id] = "running"]
            /\ as_dispatches' = [as_dispatches EXCEPT ![task_id] = @ + 1]
    /\ as_ready' = Tail(as_ready)
    /\ UNCHANGED <<as_files, as_state, as_obstacles, as_pc, as_todo, as_cur,
                   as_summary, as_err, as_held, as_initial>>
    /\ AsFrame

\* run.py 285-286, 190: time.sleep(2), then list(futures.items())
Sleep ==
    /\ as_pc = "dispatch"
    /\ as_ready = <<>>
    /\ as_todo' = as_futures
    /\ as_pc' = "reconcile"
    /\ UNCHANGED <<as_files, as_tasks, as_state, as_obstacles, as_futures, as_worker,
                   as_cur, as_ready, as_summary, as_err, as_held>>
    /\ UNCHANGED <<as_initial, as_dispatches>>
    /\ AsFrame

WorkerOutcomes == {"rc0", "rc1", "exc"}

\* run.py 280-281: _worker returns run_noninteractive(p).returncode, or raises
WorkerEnds(task_id, outcome) ==
    /\ as_worker[task_id] = "running"
    /\ as_worker' = [as_worker EXCEPT ![task_id] = outcome]
    /\ UNCHANGED <<as_files, as_tasks, as_state, as_obstacles, as_futures, as_pc,
                   as_todo, as_cur, as_ready, as_summary, as_err, as_held>>
    /\ UNCHANGED <<as_initial, as_dispatches>>
    /\ AsFrame

LoopRunning == as_pc \notin {"returned", "raised"}

\* locks.py 13: another process takes the lock file of a document
OtherAcquires(path) ==
    /\ LoopRunning
    /\ as_held = NoPath
    /\ as_held' = path
    /\ UNCHANGED <<as_files, as_tasks, as_state, as_obstacles, as_futures, as_worker,
                   as_pc, as_todo, as_cur, as_ready, as_summary, as_err>>
    /\ UNCHANGED <<as_initial, as_dispatches>>
    /\ AsFrame

OtherReleases ==
    /\ as_held # NoPath
    /\ as_held' = NoPath
    /\ UNCHANGED <<as_files, as_tasks, as_state, as_obstacles, as_futures, as_worker,
                   as_pc, as_todo, as_cur, as_ready, as_summary, as_err>>
    /\ UNCHANGED <<as_initial, as_dispatches>>
    /\ AsFrame

AsNext ==
    \/ StartState
    \/ StartObstacles
    \/ StoreTimeout
    \/ ReconcileSkip
    \/ ReconcileFirst
    \/ ReconcileSecond
    \/ ReconcileEnd
    \/ CheckExit
    \/ Dispatch
    \/ Sleep
    \/ \E i \in 1..Len(as_tasks) : \E o \in WorkerOutcomes : WorkerEnds(i, o)
    \/ \E path \in AsPaths : OtherAcquires(path)
    \/ OtherReleases

\* run.py 175-286: the steps of the thread that runs the loop
LoopStep ==
    \/ StartState
    \/ StartObstacles
    \/ StoreTimeout
    \/ ReconcileSkip
    \/ ReconcileFirst
    \/ ReconcileSecond
    \/ ReconcileEnd
    \/ CheckExit
    \/ Dispatch
    \/ Sleep

(***************************************************************************)
(* ralph/run.py: Runner.run_execute_loop with asynchronous false.          *)
(***************************************************************************)
\* the largest max_iterations and the largest number of prompts
MaxIterations == 2
MaxPrompts == 2

\* run.py 86-92: Runner._all_tasks_complete
Runner_all_tasks_complete(exists, tasks) ==
    /\ exists
    /\ Len(tasks) > 0
    /\ \A i \in 1..Len(tasks) : tasks[i].status = "completed"

\* run.py 94-102: Runner._any_task_exceeded_max_attempts
Runner_any_task_exceeded_max_attempts(exists, tasks) ==
    LET hits == { i \in 1..Len(tasks) :
                    Get(tasks[i], "attempts", 0)
                        >= Get(tasks[i], "max_attempts", DefaultMaxAttempts) }
    IN  IF ~exists \/ hits = {} THEN <<FALSE, None>>
        ELSE <<TRUE, tasks[CHOOSE i \in hits : \A j \in hits : i <= j]>>

\* run.py 86-92 applied to a tasks.json that holds the evaluator's list
CallRunnerAllTasksComplete ==
    /\ dag_pc = "done"
    /\ dag_rcomplete' = Runner_all_tasks_complete(TRUE, dag_tasks)
    /\ dag_pc' = "runner_exceeded"
    /\ UNCHANGED <<dag_tasks, dag_ready, dag_complete, dag_exceeded, dag_rexceeded>>
    /\ DagFrame

\* run.py 94-102 applied to the same tasks.json
CallRunnerAnyTaskExceeded ==
    /\ dag_pc = "runner_exceeded"
    /\ dag_rexceeded' = Runner_any_task_exceeded_max_attempts(TRUE, dag_tasks)
    /\ dag_pc' = "compared"
    /\ UNCHANGED <<dag_tasks, dag_ready, dag_complete, dag_exceeded, dag_rcomplete>>
    /\ DagFrame

\* run.py 303
IterationLimit(n) == <<"Reached maximum iteration limit", n>>

SqInit ==
    /\ sq_exists \in BOOLEAN
    /\ IF sq_exists
       THEN \E n \in 0..MaxTasks :
              \E ms \in [1..n -> 1..MaxAttemptsCap] :
                 \E sh \in [1..n -> UNION { InitialShapes(m) : m \in 1..MaxAttemptsCap }] :
                    /\ \A i \in 1..n : sh[i] \in InitialShapes(ms[i])
                    /\ sq_tasks = [i \in 1..n |-> AsTask(i, sh[i], ms[i], {})]
       ELSE sq_tasks = <<>>
    /\ sq_prompts \in 0..MaxPrompts
    /\ sq_max \in 0..MaxIterations
    /\ sq_pc = "start"
    /\ sq_summary = <<>>
    /\ sq_err = NoError

\* the sequential loop is not in use
SqIdle ==
    /\ sq_exists = FALSE
    /\ sq_tasks = <<>>
    /\ sq_prompts = 0
    /\ sq_max = 0
    /\ sq_pc = "off"
    /\ sq_summary = <<>>
    /\ sq_err = NoError

\* run.py 296-303: the pre-check
SqPreCheck ==
    /\ sq_pc = "start"
    /\ IF Runner_all_tasks_complete(sq_exists, sq_tasks)
       THEN /\ sq_summary' = Append(sq_summary, AllCompleted)
            /\ sq_pc' = "returned"
       ELSE /\ sq_pc' = "loop"
            /\ UNCHANGED sq_summary
    /\ UNCHANGED <<sq_exists, sq_tasks, sq_prompts, sq_max, sq_err>>
    /\ SqFrame

\* run.py 305-308: the first iteration.  prompts[min(0, len(prompts) - 1)] is
\* prompts[-1] on an empty list; the print of line 308 reads the local "task",
\* which is first assigned on line 321.
FirstIteration(prompts) ==
    IF prompts = 0 THEN "IndexError" ELSE "UnboundLocalError"

\* run.py 305-308: range(1, max_iterations + 1) is not empty
SqIterate ==
    /\ sq_pc = "loop"
    /\ sq_max >= 1
    /\ sq_err' = FirstIteration(sq_prompts)
    /\ sq_pc' = "raised"
    /\ UNCHANGED <<sq_exists, sq_tasks, sq_prompts, sq_max, sq_summary>>
    /\ SqFrame

\* run.py 305, 326-330: range(1, max_iterations + 1) is empty: for-else, then
\* _run_summarise(exit_reason)
SqLimit ==
    /\ sq_pc = "loop"
    /\ sq_max < 1
    /\ sq_summary' = Append(sq_summary, IterationLimit(sq_max))
    /\ sq_pc' = "returned"
    /\ UNCHANGED <<sq_exists, sq_tasks, sq_prompts, sq_max, sq_err>>
    /\ SqFrame

SqNext == SqPreCheck \/ SqIterate \/ SqLimit

(***************************************************************************)
(* ralph/run.py: Step C of run_execute_loop_async and its executor, on     *)
(* lists of independent tasks longer than the executor has threads.  (The  *)
(* lists of the loop above are shorter than that, and there every worker   *)
(* submitted runs at once.)                                                *)
(***************************************************************************)
\* the longest list of independent tasks
MaxPoolTasks == 6

\* os.cpu_count() of the machine
CpuCount == 1

\* run.py 185: ThreadPoolExecutor() with no max_workers, which the library
\* sets to min(32, (os.cpu_count() or 1) + 4)
max_workers == IF CpuCount + 4 < 32 THEN CpuCount + 4 ELSE 32

\* the workers a thread of the executor is running
PoolRunning == { t \in 1..Len(pl_tasks) : pl_worker[t] = "running" }

\* tasks.json holds independent pending tasks; state.json and obstacles.json
\* exist; the loop is at Step B of its first cycle
PlInit ==
    /\ \E n \in 1..MaxPoolTasks :
          pl_tasks = [i \in 1..n |->
                         AsTask(i, <<"pending", 0, FALSE>>, DefaultMaxAttempts, {})]
    /\ pl_pc = "check"
    /\ pl_ready = <<>>
    /\ pl_futures = <<>>
    /\ pl_worker = [i \in 1..Len(pl_tasks) |-> "none"]

\* Step C is not in use
PlIdle ==
    /\ pl_tasks = <<>>
    /\ pl_pc = "off"
    /\ pl_ready = <<>>
    /\ pl_futures = <<>>
    /\ pl_worker = <<>>

\* run.py 247-264: Step B finds no reason to stop, then ready_tasks
PlCheck ==
    /\ pl_pc = "check"
    /\ ~all_tasks_complete(pl_tasks)
    /\ ~any_task_exceeded_max_attempts(pl_tasks)[1]
    /\ pl_ready' = [k \in 1..Len(get_ready_tasks(pl_tasks)) |->
                       get_ready_tasks(pl_tasks)[k].id]
    /\ pl_pc' = "dispatch"
    /\ UNCHANGED <<pl_tasks, pl_futures, pl_worker>>
    /\ PlFrame

\* run.py 265-283: the task is set in_progress with one more attempt and its
\* worker is submitted: a thread takes it when fewer than max_workers are
\* busy, otherwise it waits in the executor's queue
PlDispatch ==
    /\ pl_pc = "dispatch"
    /\ pl_ready # <<>>
    /\ LET task_id == Head(pl_ready) IN
       IF InSeq(task_id, pl_futures)
       THEN UNCHANGED <<pl_tasks, pl_futures, pl_worker>>
       ELSE /\ pl_tasks' = SetFirst(pl_tasks, task_id, "in_progress", 1)
            /\ pl_futures' = Append(pl_futures, task_id)
            /\ pl_worker' = [pl_worker EXCEPT ![task_id] =
                                IF Cardinality(PoolRunning) < max_workers
                                THEN "running" ELSE "queued"]
    /\ pl_ready' = Tail(pl_ready)
    /\ UNCHANGED pl_pc
    /\ PlFrame

\* run.py 285-286: time.sleep(2)
PlSleep ==
    /\ pl_pc = "dispatch"
    /\ pl_ready = <<>>
    /\ pl_pc' = "slept"
    /\ UNCHANGED <<pl_tasks, pl_ready, pl_futures, pl_worker>>
    /\ PlFrame

\* run.py 280-281: _worker returns or raises; its thread takes the work item
\* that has waited longest in the queue
PlWorkerEnds(task_id) ==
    /\ pl_worker[task_id] = "running"
    /\ LET waiting == { k \in 1..Len(pl_futures) : pl_worker[pl_futures[k]] = "queued" } IN
       pl_worker' =
          IF waiting = {}
          THEN [pl_worker EXCEPT ![task_id] = "done"]
          ELSE LET k == CHOOSE i \in waiting : \A j \in waiting : i <= j IN
               [pl_worker EXCEPT ![task_id] = "done", ![pl_futures[k]] = "running"]
    /\ UNCHANGED <<pl_tasks, pl_pc, pl_ready, pl_futures>>
    /\ PlFrame

PlNext ==
    \/ PlCheck
    \/ PlDispatch
    \/ PlSleep
    \/ \E i \in 1..Len(pl_tasks) : PlWorkerEnds(i)

(***************************************************************************)
(* Specifications.                                                         *)
(***************************************************************************)
InitDag == DagInit /\ JsIdle /\ StIdle /\ AsIdle /\ SqIdle /\ PlIdle

DagNext ==
    \/ CallGetReadyTasks
    \/ CallAllTasksComplete
    \/ CallAnyTaskExceeded
    \/ CallRunnerAllTasksComplete
    \/ CallRunnerAnyTaskExceeded

SpecDag == InitDag /\ [][DagNext]_vars

InitJson == JsInit /\ DagIdle /\ StIdle /\ AsIdle /\ SqIdle /\ PlIdle

JsNext == JsWriteJson \/ JsReadJson

SpecJson == InitJson /\ [][JsNext]_vars

InitStore == StInit /\ DagIdle /\ JsIdle /\ AsIdle /\ SqIdle /\ PlIdle

SpecStore == InitStore /\ [][StNext]_vars

InitAsync == AsInit /\ DagIdle /\ JsIdle /\ StIdle /\ SqIdle /\ PlIdle

SpecAsync == InitAsync /\ [][AsNext]_vars

\* The thread of the loop keeps running (time.sleep(2) returns, run.py 286) and
\* every agent that was started comes to an end.
SpecAsyncFair ==
    /\ InitAsync
    /\ [][AsNext]_vars
    /\ WF_vars(LoopStep)
    /\ \A i \in 1..MaxTasks :
          WF_vars(i \in 1..Len(as_tasks) /\ \E o \in WorkerOutcomes : WorkerEnds(i, o))

InitSeq == SqInit /\ DagIdle /\ JsIdle /\ StIdle /\ AsIdle /\ PlIdle

SpecSeq == InitSeq /\ [][SqNext]_vars

InitPool == PlInit /\ DagIdle /\ JsIdle /\ StIdle /\ AsIdle /\ SqIdle

SpecPool == InitPool /\ [][PlNext]_vars

(***************************************************************************)
(* Properties of the evaluator (SpecDag).                                  *)
(***************************************************************************)
DepsCompleted(tasks, t) ==
    \A dep \in Get(t, "dependencies", {}) :
        \E j \in 1..Len(tasks) : tasks[j].id = dep /\ tasks[j].status = "completed"

\* C1: get_ready_tasks returns a task if and only if it is pending, not
\* blocked, has attempts below max_attempts and every dependency id is the id
\* of a completed task of the list (an id absent from the list blocks it).
C1_ReadyIff ==
    dag_pc # "ready" =>
        /\ \A k \in 1..Len(dag_ready) : InSeq(dag_ready[k], dag_tasks)
        /\ \A i \in 1..Len(dag_tasks) :
              LET t == dag_tasks[i] IN
              InSeq(t, dag_ready) <=>
                  /\ t.status = "pending"
                  /\ Get(t, "blocked", FALSE) = FALSE
                  /\ Get(t, "attempts", 0) < Get(t, "max_attempts", DefaultMaxAttempts)
                  /\ DepsCompleted(dag_tasks, t)

\* A list where one task is ready through a completed dependency and another
\* is held back only by a dependency on an absent id.
C1_Witness ==
    /\ dag_pc = "done"
    /\ Len(dag_tasks) = 2
    /\ "dependencies" \in DOMAIN dag_tasks[1] /\ "dependencies" \in DOMAIN dag_tasks[2]
    /\ dag_tasks[1].status = "pending" /\ ~dag_tasks[1].blocked
    /\ dag_tasks[1].attempts < dag_tasks[1].max_attempts
    /\ dag_tasks[1].dependencies = {AbsentId}
    /\ dag_tasks[2].status = "pending" /\ dag_tasks[2].dependencies = {}
    /\ dag_ready = <<dag_tasks[2]>>

\* C2: all_tasks_complete is true if and only if no task has a status other
\* than completed; it is true for the empty list.
C2_AllCompleteIff ==
    dag_pc \in {"exceeded", "done"} =>
        /\ dag_complete <=> ~(\E i \in 1..Len(dag_tasks) : dag_tasks[i].status # "completed")
        /\ dag_tasks = <<>> => dag_complete

C2_Witness == dag_pc = "done" /\ dag_tasks = <<>> /\ dag_complete

Exhausted(t) ==
    /\ t.status # "completed"
    /\ Get(t, "attempts", 0) >= Get(t, "max_attempts", DefaultMaxAttempts)

\* C3: any_task_exceeded_max_attempts returns the earliest task in list order
\* that is not completed and has attempts >= max_attempts, (False, None) when
\* there is none, and never a completed task.
C3_FirstExhausted ==
    dag_pc = "done" =>
        IF dag_exceeded[1]
        THEN /\ dag_exceeded[2].status # "completed"
             /\ \E i \in 1..Len(dag_tasks) :
                   /\ dag_tasks[i] = dag_exceeded[2]
                   /\ Exhausted(dag_tasks[i])
                   /\ \A j \in 1..(i - 1) : ~Exhausted(dag_tasks[j])
        ELSE /\ dag_exceeded[2] = None
             /\ \A i \in 1..Len(dag_tasks) : ~Exhausted(dag_tasks[i])

\* A completed task with spent attempts is passed over for a later one.
C3_Witness ==
    /\ dag_pc = "done"
    /\ Len(dag_tasks) = 2
    /\ dag_tasks[1].status = "completed"
    /\ Get(dag_tasks[1], "attempts", 0) >= Get(dag_tasks[1], "max_attempts", DefaultMaxAttempts)
    /\ dag_exceeded[1]
    /\ dag_exceeded[2] = dag_tasks[2]

\* the list with the status of the task at position i set to completed
Completing(tasks, i) == [tasks EXCEPT ![i] = [@ EXCEPT !.status = "completed"]]

\* C25: readiness is monotone: setting the status of one task t to completed,
\* and nothing else, removes no task other than t from the result of
\* get_ready_tasks.
C25_ReadyMonotone ==
    dag_pc # "ready" =>
        \A i \in 1..Len(dag_tasks) :
            \A k \in 1..Len(dag_ready) :
                dag_ready[k].id # dag_tasks[i].id =>
                    InSeq(dag_ready[k], get_ready_tasks(Completing(dag_tasks, i)))

\* Task 1 is ready and task 2 waits for it: completing task 1 takes task 1
\* out of the result and brings task 2 in.
C25_Witness ==
    /\ dag_pc = "done"
    /\ Len(dag_tasks) = 2
    /\ dag_ready = <<dag_tasks[1]>>
    /\ "dependencies" \in DOMAIN dag_tasks[2]
    /\ dag_tasks[2].dependencies = {1}
    /\ get_ready_tasks(Completing(dag_tasks, 1)) = <<dag_tasks[2]>>

\* C33: the sequential loop's own checks answer as the evaluator does on every
\* task list: its all-complete check as all_tasks_complete (the empty list
\* included) and its exhaustion check as any_task_exceeded_max_attempts (which
\* passes over completed tasks).
C33_RunnerChecksAgree ==
    dag_pc = "compared" =>
        /\ dag_rcomplete = dag_complete
        /\ dag_rexceeded = dag_exceeded

(***************************************************************************)
(* Properties of the store (SpecStore).                                    *)
(***************************************************************************)
\* between the acquisition of the lock and the end of the write-back
InRegion(c) ==
    st_pc[c] \in {"rw_read", "rw_body", "mkstemp", "dump", "dump_rest",
                  "replace", "cleanup", "release"}

\* the write-back of locked_json_rw and write_json
InWriteBack(c) == st_pc[c] \in {"mkstemp", "dump", "dump_rest", "replace", "cleanup"}

\* what a reader of path finds there
Visible(path) == IF st_dir[path] = NoIno THEN NoFile ELSE st_ino[st_dir[path]]

\* C4: no two callers of locked_json_rw or write_json on the same path are
\* inside the locked region at the same time.
C4_MutualExclusion ==
    \A c1, c2 \in Callers :
        (c1 # c2 /\ InRegion(c1) /\ InRegion(c2))
            => st_call[c1].path # st_call[c2].path

\* A write_json caller is writing back while a locked_json_rw caller on the
\* same path has been refused the lock.
C4_Witness ==
    \E c1, c2 \in Callers :
        /\ st_call[c1] = [op |-> "write_json", path |-> "tasks.json"]
        /\ st_pc[c1] = "dump_rest"
        /\ st_call[c2] = [op |-> "locked_json_rw", path |-> "tasks.json"]
        /\ st_pc[c2] = "failed" /\ st_err[c2] = "Timeout"

\* the callers whose locked_json_rw on path has replaced the file
Incremented(path) ==
    { c \in Callers : /\ st_call[c] = [op |-> "locked_json_rw", path |-> path]
                      /\ st_pc[c] \in {"release", "done"} }

Overwritten(path) ==
    \E c \in Callers : /\ st_call[c] = [op |-> "write_json", path |-> path]
                       /\ st_pc[c] \in {"release", "done"}

\* C5: N callers that each increment the counter of the same document through
\* locked_json_rw leave it grown by exactly N once all have returned; at any
\* time the counter has grown by the number of increments written back.
C5_NoLostUpdate ==
    /\ (\A c \in Callers : /\ st_call[c] = [op |-> "locked_json_rw", path |-> "tasks.json"]
                           /\ st_pc[c] = "done")
          => json_load(Visible("tasks.json")) = CounterDoc(NCallers)
    /\ ~Overwritten("tasks.json")
          => json_load(Visible("tasks.json"))
                = CounterDoc(Cardinality(Incremented("tasks.json")))

C5_Witness ==
    /\ \A c \in Callers : /\ st_call[c] = [op |-> "locked_json_rw", path |-> "tasks.json"]
                          /\ st_pc[c] = "done"
    /\ json_load(Visible("tasks.json")) = CounterDoc(NCallers)

\* C6: when the caller's block inside locked_json_rw raises, the document at
\* the path is what it was when the call took the lock, the mutation made in
\* memory is not written, and the block's exception ends the call.
C6_BlockRaiseLeavesFile ==
    [][\A c \in Callers :
          /\ (st_pc[c] \in {"rw_read", "rw_body"})
                => Visible(st_call[c].path)' = Visible(st_call[c].path)
          /\ (st_pc[c] = "rw_body" /\ st_err'[c] = "ValueError")
                => /\ st_pc'[c] = "failed"
                   /\ st_lock'[st_call[c].path] = NoHolder
          /\ (st_err[c] = "ValueError")
                => /\ st_pc'[c] = "failed"
                   /\ st_call[c].path \in Paths
                   /\ (st_dir'[st_call[c].path] # c /\ ~st_tmp'[c])]_vars

\* A block that changed its document in memory and raised; the file keeps
\* the old counter.
C6_Witness ==
    \E c \in Callers :
        /\ st_call[c] = [op |-> "locked_json_rw", path |-> "tasks.json"]
        /\ st_pc[c] = "failed" /\ st_err[c] = "ValueError"
        /\ st_data[c] = CounterDoc(1)
        /\ json_load(Visible("tasks.json")) = CounterDoc(0)

Committed(path) ==
    (IF path = "tasks.json" THEN {CounterDoc(0)} ELSE {})
    \cup { st_data[w] : w \in { c \in Callers :
                                   /\ st_call[c].op \in LockingOps
                                   /\ st_call[c].path = path
                                   /\ st_pc[c] \in {"release", "done"} } }

\* C8: the text at a path is always a whole document that a writer committed
\* there, and so is whatever read_json returns; no reader meets partial text.
C8_NoPartialContent ==
    /\ \A path \in Paths :
          st_dir[path] # NoIno => json_load(Visible(path)) \in Committed(path)
    /\ \A c \in Callers :
          /\ st_err[c] # "JSONDecodeError"
          /\ (st_call[c].op = "read_json" /\ st_pc[c] = "load")
                => json_load(st_ino[st_fh[c]]) \in Committed(st_call[c].path)
          /\ (st_call[c].op = "read_json" /\ st_pc[c] = "done")
                => st_data[c] \in Committed(st_call[c].path)

\* A reader holds the old file open while a writer has replaced it and
\* another writer's temporary file holds partial text.
C8_Witness ==
    \E r, w1, w2 \in Callers :
        /\ st_call[r] = [op |-> "read_json", path |-> "tasks.json"]
        /\ st_pc[r] = "load" /\ st_fh[r] = InitialIno
        /\ st_dir["tasks.json"] = w1
        /\ st_call[w2].path = "tasks.json" /\ st_pc[w2] = "dump_rest"
        /\ json_load(st_ino[w2]) = JSONDecodeError

\* C29: the document locked_json_rw hands to its caller is read after the
\* lock is taken: it is the document at the path at that time, the last one
\* committed there, and stays so while the caller's block has not run on.
C29_ReadAfterLock ==
    /\ [](\A c \in Callers :
            (st_call[c].op = "locked_json_rw" /\ st_pc[c] = "rw_body") =>
                /\ st_lock[st_call[c].path] = c
                /\ st_data[c] = json_load(Visible(st_call[c].path))
                /\ st_data[c] \in Committed(st_call[c].path))
    /\ [][\A c \in Callers :
            (st_pc[c] = "rw_read" /\ st_pc'[c] = "rw_body") =>
                st_data'[c] = json_load(Visible(st_call[c].path))]_vars

\* A caller is handed the counter 2 that two earlier callers of
\* locked_json_rw left at the path.
C29_Witness ==
    \E c, w1, w2 \in Callers :
        /\ w1 # w2
        /\ st_call[w1] = [op |-> "locked_json_rw", path |-> "tasks.json"]
        /\ st_call[w2] = [op |-> "locked_json_rw", path |-> "tasks.json"]
        /\ st_pc[w1] = "done" /\ st_pc[w2] = "done"
        /\ st_call[c] = [op |-> "locked_json_rw", path |-> "tasks.json"]
        /\ st_pc[c] = "rw_body"
        /\ st_data[c] = CounterDoc(2)

\* the callers inside the locked region of path
Inside(path) == { c \in Callers : InRegion(c) /\ st_call[c].path = path }

\* C30: the lock is per path.  A caller that holds the lock of one document
\* never keeps a caller from another document: whoever asks for a free lock
\* can take it, and a caller is refused only when the lock of its own path is
\* held, so that callers can be inside the locked regions of two documents at
\* once; on one document there is never more than one, and it is the holder of
\* that document's lock.
C30_LockPerPath ==
    /\ [](\A path \in Paths :
            /\ Cardinality(Inside(path)) <= 1
            /\ \A c \in Inside(path) : st_lock[path] = c)
    /\ [](\A c \in Callers : \A path \in Paths :
            (st_pc[c] = "idle" /\ st_lock[path] = NoHolder) =>
                /\ ENABLED RwAcquire(c, path)
                /\ ENABLED WriteAcquire(c, path))
    /\ [][\A c \in Callers :
            (st_pc[c] = "idle" /\ st_err'[c] = "Timeout") =>
                st_lock[st_call'[c].path] \notin {NoHolder, c}]_vars

\* One caller is inside locked_json_rw on tasks.json while another is inside
\* locked_json_rw on state.json.
C30_Witness ==
    \E c1, c2 \in Callers :
        /\ st_call[c1] = [op |-> "locked_json_rw", path |-> "tasks.json"]
        /\ st_pc[c1] = "rw_body"
        /\ st_call[c2] = [op |-> "locked_json_rw", path |-> "state.json"]
        /\ st_pc[c2] = "rw_body"

\* C39: the lock of a path is released on every exit of locked_json_rw and
\* write_json: the normal return, an exception of the caller's block, a
\* failure of the read, a failure of the write-back.  A lock is held only by a
\* caller that is inside the locked region of that path, every step that leaves
\* the region leaves the lock free, and when nobody is inside, a caller that
\* asks for the lock gets it.
C39_LockReleasedOnEveryExit ==
    /\ [](\A path \in Paths : \A c \in Callers :
            st_lock[path] = c => c \in Inside(path))
    /\ [](\A path \in Paths :
            Inside(path) = {} =>
                \A c \in Callers :
                    st_pc[c] = "idle" =>
                        /\ ENABLED RwAcquire(c, path)
                        /\ ENABLED WriteAcquire(c, path))
    /\ [][\A c \in Callers :
            (InRegion(c) /\ ~InRegion(c)') =>
                /\ st_pc'[c] \in {"done", "failed"}
                /\ st_lock[st_call[c].path] = c
                /\ st_lock'[st_call[c].path] = NoHolder]_vars

\* On tasks.json one caller's write-back failed and another's block raised;
\* a third caller holds the lock and is inside its block.
C39_Witness ==
    \E c1, c2, c3 \in Callers :
        /\ st_call[c1].path = "tasks.json"
        /\ st_pc[c1] = "failed" /\ st_err[c1] = "OSError"
        /\ st_call[c2] = [op |-> "locked_json_rw", path |-> "tasks.json"]
        /\ st_pc[c2] = "failed" /\ st_err[c2] = "ValueError"
        /\ st_call[c3] = [op |-> "locked_json_rw", path |-> "tasks.json"]
        /\ st_pc[c3] = "rw_body"
        /\ st_lock["tasks.json"] = c3

(***************************************************************************)
(* Properties of the store's round trip (SpecJson).                        *)
(***************************************************************************)
\* C9: write_json(path, d) followed by read_json(path), with no other writer
\* in between, returns a structure equal to d.
C9_RoundTrip == js_pc = "done" => js_result = js_doc

\* A nested document with a bool in it has gone through the round trip.
C9_Witness ==
    /\ js_pc = "done"
    /\ js_doc = JDict(<< <<"a", JList(<<JBool(TRUE), JInt(1)>>)>> >>)
    /\ js_result = js_doc

(***************************************************************************)
(* Properties of the async loop (SpecAsync).                               *)
(***************************************************************************)
\* what the loop itself holds and writes
LoopState ==
    <<as_pc, as_err, as_files, as_tasks, as_state, as_obstacles, as_futures,
      as_todo, as_cur, as_ready, as_summary>>

AsIds == 1..Len(as_tasks)

\* every dependency of task t names a task that is completed in tasks.json
AsDepsCompleted(t) ==
    \A d \in as_tasks[t].dependencies :
        \E j \in AsIds : as_tasks[j].id = d /\ as_tasks[j].status = "completed"

\* this step submits a worker for task t
WorkerStarts(t) == as_dispatches'[t] = as_dispatches[t] + 1

\* C11: a worker for a task is started only when every task named in its
\* dependencies is completed in the tasks document, and while the worker runs
\* they stay completed; no task is dispatched over a pending or in_progress
\* dependency.
C11_DispatchAfterDependencies ==
    [][\A t \in AsIds :
          /\ WorkerStarts(t) => AsDepsCompleted(t)
          /\ as_worker'[t] = "running" => AsDepsCompleted(t)']_vars

\* Task 2, which depends on task 1, runs after the loop reconciled task 1's
\* success.
C11_Witness ==
    /\ Len(as_tasks) = 2
    /\ as_tasks[2].dependencies = {1}
    /\ as_initial[1].status = "pending"
    /\ as_worker[2] = "running"
    /\ as_tasks[1].status = "completed"
    /\ InSeq(StateEntry(1), as_state)

\* a worker for task t was submitted and its result has not been taken
Outstanding(t) == InSeq(t, as_futures) \/ as_worker[t] = "running"

\* C12: there is at most one outstanding worker per task id: every running
\* worker is the one future the map holds for its task, and no worker is
\* submitted for a task whose previous worker has not been reconciled.
C12_OneWorkerPerTask ==
    /\ [](\A t \in AsIds :
            /\ as_worker[t] = "running" => InSeq(t, as_futures)
            /\ Cardinality({ k \in 1..Len(as_futures) : as_futures[k] = t }) <= 1)
    /\ [][\A t \in AsIds : WorkerStarts(t) => ~Outstanding(t)]_vars

\* A second worker for task 1 runs, after its first one failed and was
\* reconciled, while the worker of task 2 is still running.
C12_Witness ==
    /\ Len(as_tasks) = 2
    /\ as_dispatches[1] = 2
    /\ as_worker[1] = "running"
    /\ as_worker[2] = "running"
    /\ as_futures = <<2, 1>>

\* the run-state entries of task t
Entries(t) == { k \in 1..Len(as_state) : as_state[k].task_id = t }

\* task t was not completed when the loop started and is completed now
LoopCompleted(t) ==
    as_initial[t].status # "completed" /\ as_tasks[t].status = "completed"

LoopEnded == as_pc \in {"returned", "raised"}

\* the loop is between the two updates of the success of task t, or was
\* stopped there
BetweenUpdates(t) ==
    as_pc \in {"reconcile2", "raised"} /\ as_cur = <<t, "rc0">>

ObstaclesOf(t) == { k \in 1..Len(as_obstacles) : as_obstacles[k].task_id = t }

\* the loop takes the result of the failed worker of task t
FailureTaken(t) ==
    /\ as_pc = "reconcile" /\ as_pc' = "reconcile2"
    /\ Head(as_todo) = t
    /\ as_worker[t] \in {"rc1", "exc"}

\* the loop ends the reconciliation of the failed worker of task t
FailureSettled(t) ==
    /\ as_pc = "reconcile2" /\ as_pc' = "reconcile"
    /\ as_cur[1] = t
    /\ as_cur[2] \in {"rc1", "exc"}

\* C14: reconciling a worker that failed, by a non-zero return code or by an
\* exception, appends exactly one obstacle for its task, with resolved false,
\* then sets the task pending, and leaves the task's attempts as they were;
\* obstacles are appended for failed workers only.
C14_FailureReconciled ==
    [][\A t \in AsIds :
          /\ FailureTaken(t) =>
                /\ Len(as_obstacles') = Len(as_obstacles) + 1
                /\ SubSeq(as_obstacles', 1, Len(as_obstacles)) = as_obstacles
                /\ as_obstacles'[Len(as_obstacles')].task_id = t
                /\ as_obstacles'[Len(as_obstacles')].resolved = FALSE
                /\ as_tasks' = as_tasks
          /\ FailureSettled(t) =>
                /\ as_obstacles' = as_obstacles
                /\ as_tasks'[t].status = "pending"
                /\ as_tasks'[t].attempts = as_tasks[t].attempts
                /\ \A u \in AsIds \ {t} : as_tasks'[u] = as_tasks[u]
          /\ as_obstacles' # as_obstacles => \E u \in AsIds : FailureTaken(u)]_vars

\* The worker of task 1 raised and was reconciled: one obstacle, the task
\* pending again with its one attempt counted.
C14_Witness ==
    /\ Len(as_tasks) >= 1
    /\ as_worker[1] = "exc"
    /\ as_cur = <<>>
    /\ as_pc = "reconcile"
    /\ as_tasks[1].status = "pending"
    /\ as_tasks[1].attempts = 1
    /\ Cardinality(ObstaclesOf(1)) = 1
    /\ \A k \in ObstaclesOf(1) : as_obstacles[k].resolved = FALSE

\* C15: each dispatch of a task sets it in_progress and raises its attempts by
\* exactly one, with the worker's submission; nothing else in the loop changes
\* attempts; so a task's attempts are always its initial attempts plus the
\* number of times it was dispatched, and a task whose worker runs is
\* in_progress.
C15_AttemptsCountDispatches ==
    /\ [](\A t \in AsIds :
            /\ as_tasks[t].attempts = as_initial[t].attempts + as_dispatches[t]
            /\ as_worker[t] = "running" => as_tasks[t].status = "in_progress")
    /\ [][\A t \in AsIds :
            /\ WorkerStarts(t) =>
                  /\ as_tasks'[t].status = "in_progress"
                  /\ as_tasks'[t].attempts = as_tasks[t].attempts + 1
                  /\ as_worker'[t] = "running"
            /\ as_tasks'[t].attempts # as_tasks[t].attempts => WorkerStarts(t)
            /\ as_dispatches'[t] # as_dispatches[t] => WorkerStarts(t)]_vars

\* Task 1 runs for the second time: two dispatches, two attempts.
C15_Witness ==
    /\ Len(as_tasks) >= 1
    /\ as_initial[1].attempts = 0
    /\ as_dispatches[1] = 2
    /\ as_tasks[1].attempts = 2
    /\ as_tasks[1].status = "in_progress"
    /\ as_worker[1] = "running"

\* task t started pending, unblocked and unattempted, and the loop ran it
Attempted(t) ==
    /\ as_initial[t].status = "pending"
    /\ as_initial[t].attempts = 0
    /\ as_dispatches[t] >= 1

\* no task but t is exhausted
OnlyExhausted(t) == \A u \in AsIds \ {t} : ~is_exceeded(as_tasks[u])

\* C16: if every attempt of task T with max_attempts = m failed, then, once the
\* loop has returned, T was dispatched exactly m times, the reason names T and
\* m, obstacles.json holds exactly m entries for T and tasks.json shows
\* attempts = m with a status other than completed.  (T is taken to start
\* unattempted and no other task to be exhausted.)
C16_ExhaustedAfterFailures ==
    \A t \in AsIds :
        ( /\ as_pc = "returned"
          /\ Attempted(t)
          /\ OnlyExhausted(t)
          /\ as_worker[t] \in {"rc1", "exc"} )
        => /\ as_dispatches[t] = as_tasks[t].max_attempts
           /\ as_summary = <<TaskExhausted(as_tasks[t])>>
           /\ Cardinality(ObstaclesOf(t)) = as_tasks[t].max_attempts
           /\ as_tasks[t].attempts = as_tasks[t].max_attempts
           /\ as_tasks[t].status # "completed"

\* C17: if the attempts of a task failed k times and then one succeeded, with
\* k < max_attempts and no other task exhausted, then, once the loop has
\* returned, the task is completed with attempts = k + 1, the run-state log
\* holds exactly one entry for it and obstacles.json exactly k.
C17_CompletedAfterRetries ==
    \A t \in AsIds :
        ( /\ as_pc = "returned"
          /\ Attempted(t)
          /\ OnlyExhausted(t)
          /\ as_worker[t] = "rc0"
          /\ as_dispatches[t] - 1 < as_tasks[t].max_attempts )
        => /\ as_tasks[t].status = "completed"
           /\ as_tasks[t].attempts = as_dispatches[t]
           /\ Cardinality(Entries(t)) = 1
           /\ Cardinality(ObstaclesOf(t)) = as_dispatches[t] - 1

\* the async loop stopped, from inside its "while True"
StoppedInLoop ==
    \/ as_pc = "returned"
    \/ as_pc = "raised" /\ as_files = AsPaths

\* C18: every run of the async loop that stops, by whichever path (all
\* complete, task exhausted, or an error raised inside a cycle), has called
\* _run_summarise exactly once.
C18_SummarisedOnce == StoppedInLoop => Len(as_summary) = 1

\* the loop is at the end of a cycle with no future in its map, no worker
\* running, no task ready, not every task completed and no task exhausted
IdlePolling ==
    /\ as_pc = "dispatch"
    /\ as_err = NoError
    /\ as_ready = <<>>
    /\ as_futures = <<>>
    /\ \A t \in AsIds : as_worker[t] # "running"
    /\ get_ready_tasks(as_tasks) = <<>>
    /\ ~all_tasks_complete(as_tasks)
    /\ ~any_task_exceeded_max_attempts(as_tasks)[1]

\* C20: when every started worker finishes and no store operation fails, the
\* async loop ends with the reason "all completed" or "task exhausted"; it is
\* never left polling with nothing in flight and nothing ready.  From a state
\* of IdlePolling only Sleep, ReconcileEnd and CheckExit are enabled in turn,
\* and they lead back to it with the same task list.
C20_NeverIdlePolling == ~IdlePolling

\* C23: the run-state log is append-only during a run of the async loop: every
\* step leaves the entries it finds unchanged and in their order, so the log
\* before a step is a prefix of the log after it.
C23_StateLogAppendOnly ==
    [][/\ Len(as_state') >= Len(as_state)
       /\ SubSeq(as_state', 1, Len(as_state)) = as_state]_vars

\* The log started with an entry of an earlier run and the loop has appended
\* the entries of two tasks behind it.
C23_Witness ==
    /\ Len(as_state) = 3
    /\ as_state[1] = StateEntry(AbsentId)
    /\ as_state[2] # as_state[3]
    /\ as_state[2].task_id \in AsIds
    /\ as_state[3].task_id \in AsIds

\* C24: the obstacle ids the loop assigns never collide: each is the length of
\* the list plus one, computed in the update that appends it, so that the n-th
\* obstacle of the document has the id "O<n>" and all ids differ, also when
\* several failures are reconciled in one cycle.
C24_ObstacleIdsDistinct ==
    /\ [](\A k \in 1..Len(as_obstacles) : as_obstacles[k].id = k)
    /\ [](\A j, k \in 1..Len(as_obstacles) :
             as_obstacles[j].id = as_obstacles[k].id => j = k)
    /\ [][as_obstacles' # as_obstacles =>
             as_obstacles' = Append(as_obstacles,
                                    Obstacle(Len(as_obstacles) + 1,
                                             as_obstacles'[Len(as_obstacles')].task_id))]_vars

\* Starting from an empty document, the failures of task 1 and of task 2 are
\* reconciled in one and the same cycle (task 1 would have been dispatched
\* again in Step C of an earlier one) and get the ids O1 and O2.
C24_Witness ==
    /\ Len(as_tasks) = 2
    /\ as_initial[1] = AsTask(1, <<"pending", 0, FALSE>>, 2, {})
    /\ as_initial[2].dependencies = {}
    /\ as_dispatches = <<1, 1>>
    /\ as_pc = "reconcile2"
    /\ as_cur[1] = 2
    /\ as_obstacles = <<Obstacle(1, 1), Obstacle(2, 2)>>

\* the ids of the tasks get_ready_tasks returns
ReadyIds(tasks) ==
    { get_ready_tasks(tasks)[k].id : k \in 1..Len(get_ready_tasks(tasks)) }

\* this step is part of a reconciliation: it changes the run-state log, the
\* obstacles, or sets a task completed or back to pending
Reconciles ==
    \/ as_state' # as_state
    \/ as_obstacles' # as_obstacles
    \/ \E t \in AsIds : /\ as_tasks'[t].status # as_tasks[t].status
                        /\ as_tasks'[t].status \in {"completed", "pending"}

\* C26: in every poll cycle the reconciliations come first, then the
\* termination check, then the dispatches.  Step B is entered only when Step A
\* has gone through all futures, and Step C only from Step B; reconciliations
\* happen in Step A only and workers start in Step C only; Step B decides on
\* the task list as Step A left it and hands all its ready tasks to Step C;
\* and Step C ends, short of an exception, with no ready task left over, so
\* that a task made ready by a reconciliation is dispatched in the same cycle.
C26_CycleOrder ==
    /\ [][/\ (as_pc # "check" /\ as_pc' = "check") =>
                (as_pc = "reconcile" /\ as_todo = <<>> /\ as_cur = <<>>)
          /\ (as_pc # "dispatch" /\ as_pc' = "dispatch") => as_pc = "check"
          /\ (as_pc = "dispatch" /\ as_pc' \notin {"dispatch", "raised"}) =>
                (as_pc' = "reconcile" /\ as_ready = <<>>)
          /\ Reconciles => as_pc \in {"reconcile", "reconcile2"}
          /\ (\E t \in AsIds : WorkerStarts(t)) => as_pc = "dispatch"
          /\ (as_pc = "check" /\ as_pc' # "check") =>
                /\ as_pc' = "returned" <=>
                      \/ all_tasks_complete(as_tasks)
                      \/ any_task_exceeded_max_attempts(as_tasks)[1]
                /\ as_pc' = "dispatch" =>
                      \A t \in AsIds : InSeq(t, as_ready') <=> t \in ReadyIds(as_tasks)]_vars
    /\ [](as_pc = "dispatch" => \A t \in ReadyIds(as_tasks) : InSeq(t, as_ready))

\* Task 2 depends on task 1 alone.  Step A has just set task 1 completed and
\* logged it, Step B went on, and the worker of task 2 runs at the end of
\* Step C of that cycle.
C26_Witness ==
    /\ Len(as_tasks) = 2
    /\ as_initial[1].status = "pending"
    /\ as_initial[2].status = "pending"
    /\ as_tasks[2].dependencies = {1}
    /\ as_tasks[1].status = "completed"
    /\ InSeq(StateEntry(1), as_state)
    /\ as_pc = "dispatch"
    /\ as_ready = <<>>
    /\ as_dispatches = <<1, 1>>
    /\ as_futures = <<2>>
    /\ as_worker[2] = "running"

\* task t is not completed and has used up its attempts
AsExhausted(t) ==
    /\ as_tasks[t].status # "completed"
    /\ as_tasks[t].attempts >= as_tasks[t].max_attempts

\* C27: the reason the loop ends with is sound: "All tasks completed
\* successfully." is reported only when every task of the tasks document is
\* completed; otherwise the reason names, with its id and max_attempts, the
\* first task in list order that is not completed and has attempts >=
\* max_attempts; all-complete is looked at first.
C27_ReasonSound ==
    as_pc = "returned" =>
        /\ Len(as_summary) = 1
        /\ IF \A t \in AsIds : as_tasks[t].status = "completed"
           THEN as_summary[1] = AllCompleted
           ELSE \E t \in AsIds :
                   /\ AsExhausted(t)
                   /\ \A u \in 1..(t - 1) : ~AsExhausted(u)
                   /\ as_summary[1] =
                         <<"reached max_attempts", as_tasks[t].id, as_tasks[t].max_attempts>>

\* Both tasks failed their only attempt and both failures are reconciled: the
\* reason names task 1.
C27_Witness ==
    /\ as_pc = "returned"
    /\ Len(as_tasks) = 2
    /\ as_dispatches = <<1, 1>>
    /\ as_futures = <<>>
    /\ as_tasks[1].status = "pending" /\ AsExhausted(1)
    /\ as_tasks[2].status = "pending" /\ AsExhausted(2)
    /\ as_summary = <<TaskExhausted(as_tasks[1])>>

\* C28: when the loop ends it does not wait for the workers still running,
\* and every worker that has finished by then has been reconciled: at the
\* step that returns, no finished worker's future is still in the map.  (Stated
\* for returns where every exhausted task is pending, its last failure
\* reconciled.)
C28_NoFinishedWorkerDropped ==
    [][(/\ as_pc # "returned"
        /\ as_pc' = "returned"
        /\ \A t \in AsIds : AsExhausted(t) => as_tasks[t].status = "pending") =>
           \A t \in AsIds : as_worker[t] \in WorkerOutcomes => ~InSeq(t, as_futures)]_vars

\* C31: when every task starts with attempts <= max_attempts, every task has
\* attempts <= max_attempts in every state of the loop, and no worker is
\* started for a task whose attempts have reached max_attempts.
C31_AttemptsWithinLimit ==
    /\ []((\A t \in AsIds : as_initial[t].attempts <= as_initial[t].max_attempts) =>
             \A t \in AsIds : as_tasks[t].attempts <= as_tasks[t].max_attempts)
    /\ [][\A t \in AsIds :
             WorkerStarts(t) => as_tasks[t].attempts < as_tasks[t].max_attempts]_vars

\* Task 1 was dispatched twice, has failed twice and stands at its limit of
\* two attempts.
C31_Witness ==
    /\ Len(as_tasks) >= 1
    /\ as_initial[1].attempts = 0
    /\ as_dispatches[1] = 2
    /\ as_tasks[1].attempts = 2
    /\ as_tasks[1].max_attempts = 2
    /\ as_tasks[1].status = "pending"
    /\ Cardinality(ObstaclesOf(1)) = 2

\* C34: at start-up the loop creates the run-state document as the empty list
\* and the obstacles document with no obstacles only when the file is absent; a
\* document that exists keeps every entry it had.
C34_StartUpCreatesOnlyAbsent ==
    [][/\ (as_pc = "start_state" /\ as_pc' = "start_obstacles") =>
            /\ StatePath \in as_files'
            /\ StatePath \in as_files => as_state' = as_state
            /\ StatePath \notin as_files => as_state' = <<>>
            /\ as_obstacles' = as_obstacles
       /\ (as_pc = "start_obstacles" /\ as_pc' = "reconcile") =>
            /\ ObstaclesPath \in as_files'
            /\ ObstaclesPath \in as_files => as_obstacles' = as_obstacles
            /\ ObstaclesPath \notin as_files => as_obstacles' = <<>>
            /\ as_state' = as_state]_vars

\* Start-up has run over two documents that existed: both kept their entry.
C34_Witness ==
    /\ as_pc = "reconcile"
    /\ \A t \in AsIds : as_dispatches[t] = 0
    /\ as_files = AsPaths
    /\ as_state = <<StateEntry(AbsentId)>>
    /\ as_obstacles = <<Obstacle(1, AbsentId)>>

\* C35: the loop never ends with the reason "reached max_attempts" for a task
\* whose latest attempt is still in flight: when that reason names a task, its
\* final permitted attempt has finished and has been reconciled as a failure.
\* (The task is taken to start pending and unattempted.)
C35_NoExhaustionInFlight ==
    \A t \in AsIds :
        ( /\ as_pc = "returned"
          /\ Attempted(t)
          /\ as_summary = <<TaskExhausted(as_tasks[t])>> )
        => /\ ~InSeq(t, as_futures)
           /\ as_worker[t] \in {"rc1", "exc"}
           /\ as_tasks[t].status = "pending"

\* C36: in the async loop completed is an absorbing status: once a task is
\* completed in the tasks document no later step changes its status or its
\* attempts, and no worker is started for it.
C36_CompletedAbsorbing ==
    [][\A t \in AsIds :
          as_tasks[t].status = "completed" =>
              /\ as_tasks'[t].status = "completed"
              /\ as_tasks'[t].attempts = as_tasks[t].attempts
              /\ ~WorkerStarts(t)]_vars

\* Task 1 was completed by its first worker, with an attempt to spare, and the
\* loop has gone on to start the task that depends on it.
C36_Witness ==
    /\ Len(as_tasks) = 2
    /\ as_initial[1].status = "pending"
    /\ as_tasks[1].status = "completed"
    /\ as_tasks[1].attempts = 1
    /\ as_tasks[1].max_attempts = 2
    /\ as_dispatches[1] = 1
    /\ as_tasks[2].dependencies = {1}
    /\ as_worker[2] = "running"

\* the loop is at the end of a poll cycle, about to sleep
CycleBoundary == as_pc = "dispatch" /\ as_ready = <<>>

NoneStartsInProgress == \A t \in AsIds : as_initial[t].status # "in_progress"

\* C37: given that no task starts in_progress, at every poll-cycle boundary a
\* task is in_progress if and only if the futures map holds an entry for it;
\* the entry is added at the dispatch of the task and removed once, by the
\* reconciliation of that attempt: by the pass of Step A that takes up the
\* finished worker, whether or not its updates of the documents go through.
C37_InProgressIffInFlight ==
    /\ []((NoneStartsInProgress /\ CycleBoundary) =>
             \A t \in AsIds :
                 as_tasks[t].status = "in_progress" <=> InSeq(t, as_futures))
    /\ [][\A t \in AsIds :
             /\ (~InSeq(t, as_futures) /\ InSeq(t, as_futures')) <=> WorkerStarts(t)
             /\ (InSeq(t, as_futures) /\ ~InSeq(t, as_futures')) =>
                   /\ as_pc = "reconcile" /\ as_pc' \in {"reconcile2", "raised"}
                   /\ Head(as_todo) = t
                   /\ as_worker[t] # "running"]_vars

\* At the end of a cycle task 1 is in flight and task 2, whose only attempt
\* was reconciled as a success, is not.
C37_Witness ==
    /\ CycleBoundary
    /\ NoneStartsInProgress
    /\ Len(as_tasks) = 2
    /\ as_tasks[1].status = "in_progress" /\ InSeq(1, as_futures)
    /\ as_dispatches[2] = 1
    /\ as_tasks[2].status = "completed" /\ ~InSeq(2, as_futures)

\* every task starts unattempted and the log and the obstacles started empty:
\* they hold no entry but those of this run, which name tasks of the list
StartsClean ==
    /\ \A t \in AsIds : as_initial[t].attempts = 0
    /\ \A k \in 1..Len(as_state) : as_state[k].task_id \in AsIds
    /\ \A k \in 1..Len(as_obstacles) : as_obstacles[k].task_id \in AsIds

\* C38: starting from attempts 0 and an empty log and obstacles document, at
\* every poll-cycle boundary each task has attempts = (obstacles recorded for
\* it) + (run-state entries for it) + (1 if it is in flight, else 0), and the
\* log holds at most one entry for it.
C38_AttemptsAccounted ==
    (StartsClean /\ CycleBoundary) =>
        \A t \in AsIds :
            /\ as_tasks[t].attempts =
                  Cardinality(ObstaclesOf(t)) + Cardinality(Entries(t))
                      + (IF InSeq(t, as_futures) THEN 1 ELSE 0)
            /\ Cardinality(Entries(t)) <= 1

\* At the end of a cycle task 1 is in flight for the second time, after one
\* recorded failure, and task 2 was completed by its first worker.
C38_Witness ==
    /\ CycleBoundary
    /\ StartsClean
    /\ Len(as_tasks) = 2
    /\ as_tasks[1].attempts = 2 /\ InSeq(1, as_futures)
    /\ Cardinality(ObstaclesOf(1)) = 1 /\ Cardinality(Entries(1)) = 0
    /\ as_tasks[2].attempts = 1 /\ ~InSeq(2, as_futures)
    /\ Cardinality(ObstaclesOf(2)) = 0 /\ Cardinality(Entries(2)) = 1

\* the dependencies of task t that name a task of the list
ListedDeps(t) == as_initial[t].dependencies \cap AsIds

\* every task starts pending, unblocked and unattempted, with a limit of at
\* least one attempt; every dependency names a task of the list; and the
\* dependency graph has no cycle: the tasks can be ranked so that each ranks
\* above its dependencies
StartsRunnable ==
    /\ \A t \in AsIds :
          /\ as_initial[t].status = "pending"
          /\ ~as_initial[t].blocked
          /\ as_initial[t].attempts = 0
          /\ as_initial[t].max_attempts >= 1
          /\ as_initial[t].dependencies \subseteq AsIds
    /\ \E rank \in [AsIds -> 1..Len(as_tasks)] :
          \A t \in AsIds : \A d \in ListedDeps(t) : rank[d] < rank[t]

\* C40: if every task starts pending, unblocked, with attempts 0 and
\* max_attempts >= 1, every dependency names a task of the list, the
\* dependency graph is acyclic, every worker finishes and no store operation
\* fails, the loop ends: it returns, and it never reaches the state of polling
\* with no worker in flight, no ready task, a task that is not completed and
\* no task exhausted.
C40_LoopTerminates ==
    /\ [](StartsRunnable => ~IdlePolling)
    /\ [](StartsRunnable => <>(as_pc = "returned" \/ as_err # NoError))

\* The loop returned with every task completed: task 1 at its second attempt,
\* then task 2, which depends on it.
C40_Witness ==
    /\ StartsRunnable
    /\ as_pc = "returned"
    /\ as_summary = <<AllCompleted>>
    /\ Len(as_tasks) = 2
    /\ as_tasks[2].dependencies = {1}
    /\ as_dispatches[1] = 2
    /\ as_dispatches[2] = 1

(***************************************************************************)
(* Properties of the sequential loop (SpecSeq).                            *)
(***************************************************************************)
\* C19: every run of the sequential loop ends by calling _run_summarise
\* exactly once, with the reason of the path taken.  (tasks.json holds a task
\* and one prompt at least is handed in, as the callers see to.)
C19_SeqSummarisedOnce ==
    (sq_exists /\ Len(sq_tasks) >= 1 /\ sq_prompts >= 1
        /\ sq_pc \notin {"start", "loop"}) =>
        /\ sq_pc = "returned"
        /\ Len(sq_summary) = 1
        /\ sq_summary[1] \in {AllCompleted, IterationLimit(sq_max)}
                             \cup { TaskExhausted(sq_tasks[i]) : i \in 1..Len(sq_tasks) }
                             \cup { <<"Claude Code usage limit has been reached.">> }

\* C22: the sequential loop always ends, and when nothing else stops it (here:
\* the tasks are not all completed, none is exhausted, and the agent changes
\* nothing) it ends by reporting "Reached maximum iteration limit
\* (max_iterations)." once, after max_iterations calls of the agent.  (No step
\* of the loop calls the agent, so the calls are not counted.)
C22_SeqStopsAtLimit ==
    (/\ sq_exists
     /\ Len(sq_tasks) >= 1
     /\ sq_prompts >= 1
     /\ ~Runner_all_tasks_complete(sq_exists, sq_tasks)
     /\ ~any_task_exceeded_max_attempts(sq_tasks)[1]
     /\ sq_pc \notin {"start", "loop"}) =>
        /\ sq_pc = "returned"
        /\ sq_summary = <<IterationLimit(sq_max)>>

\* C32: the sequential loop stops at the first stop condition, in a fixed
\* order: all tasks complete at entry ends it before any agent is called;
\* after each call the rate-limit marker, then all-complete, then a task at
\* max_attempts end it; the iteration limit is the reason only when none of
\* them held after the last iteration.  So a run that has ended has returned
\* with one reason, which is "all completed" when the tasks were complete at
\* entry and is not the iteration limit in that case.  (Apart from the check
\* at entry, no step of the loop reaches a call of the agent or the checks
\* behind it.)
C32_SeqStopsAtFirstCondition ==
    (sq_exists /\ Len(sq_tasks) >= 1 /\ sq_prompts >= 1
        /\ sq_pc \notin {"start", "loop"}) =>
        /\ sq_pc = "returned"
        /\ sq_err = NoError
        /\ Len(sq_summary) = 1
        /\ Runner_all_tasks_complete(sq_exists, sq_tasks) <=> sq_summary[1] = AllCompleted

(***************************************************************************)
(* Properties of Step C and the executor (SpecPool).                       *)
(***************************************************************************)
\* C21: in Step C every ready task that is not in flight gets a worker started
\* in that same cycle, whatever the number of workers already running: when
\* Step C is over, a worker has started for every task that was ready (here,
\* every task of the list), so that there is no cap on the workers running.
C21_EveryReadyTaskStarted ==
    (pl_pc = "dispatch" /\ pl_ready = <<>>) =>
        \A t \in 1..Len(pl_tasks) :
            /\ InSeq(t, pl_futures)
            /\ pl_worker[t] \in {"running", "done"}

====
